---- MODULE Spec2Model ----
(***************************************************************************)
(* State-machine model of the chatbot-platform server routes:              *)
(*   server/routes/chat.js      (getAIResponse, chat create, message list  *)
(*                               and send)                                 *)
(*   server/routes/projects.js  (project list/create/get/update/delete)    *)
(*   server/routes/files.js     (upload, file list/delete/content)         *)
(* Strings are modelled as sequences of one-character (or one-phrase)      *)
(* tokens so that trim(), slice() and concatenation are computed.          *)
(***************************************************************************)
EXTENDS Integers, Sequences, FiniteSets, TLC

\* ------------------------------------------------------------------ bounds
MaxPrior == 11         \* messages already in A's chat in the initial state
MaxSends == 2          \* send-message requests per behaviour
MaxProjects == 2       \* Project rows ever created in a behaviour
MaxChats == 2          \* Chat rows ever created in a behaviour
MaxFiles == 4          \* File rows ever created in a behaviour

\* ------------------------------------------------------- program constants
WindowSize == 10       \* chat.js: messages: { orderBy desc, take: 10 }
Slice30 == 30          \* chat.js: content.slice(0, 30)
Slice20 == 20          \* chat.js: content.slice(0, 20)
Slice100 == 100        \* chat.js: systemPrompt.slice(0, 100)
NumTemplates == 4      \* chat.js: responses[] has four templates
ChatsShown == 10       \* projects.js: chats: { orderBy desc, take: 10 }

NULL == [t |-> "null"]

Users == {"A", "B"}
Reqs == {1, 2}         \* handler invocations that can be in flight together

\* LLM_SERVICES
OPENAI == "openai"
OPENROUTER == "openrouter"

\* --------------------------------------------------------- string helpers
Min(a, b) == IF a < b THEN a ELSE b

\* String.prototype.slice(a, b) for 0 <= a <= b
Slice(s, a, b) == SubSeq(s, a + 1, Min(b, Len(s)))

RECURSIVE TrimStart(_)
TrimStart(s) ==
  IF s # << >> /\ Head(s) = " " THEN TrimStart(Tail(s)) ELSE s

RECURSIVE TrimEnd(_)
TrimEnd(s) ==
  IF s # << >> /\ s[Len(s)] = " " THEN TrimEnd(SubSeq(s, 1, Len(s) - 1)) ELSE s

\* String.prototype.trim()
Trim(s) == TrimEnd(TrimStart(s))

Reverse(s) == [i \in 1 .. Len(s) |-> s[Len(s) + 1 - i]]

Range(s) == {s[i] : i \in 1 .. Len(s)}

\* JSON values of the request body's "content" field
Str(s) == [t |-> "string", s |-> s]
Undefined == [t |-> "undefined", s |-> << >>]
Num == [t |-> "number", s |-> << >>]
JsNull == [t |-> "null", s |-> << >>]

\* JavaScript truthiness of a body value (the number stands for a non-zero one)
Truthy(v) ==
  CASE v.t = "undefined" -> FALSE
    [] v.t = "null" -> FALSE
    [] v.t = "string" -> v.s # << >>
    [] OTHER -> TRUE

\* ------------------------------------------------------------------ state
VARIABLES
  env,        \* process.env: which API keys are configured
  onDelete,   \* referential action of the schema's project relations
  projects,   \* Project rows: id -> [userId, name, description, systemPrompt]
  chats,      \* Chat rows: id -> [projectId, title]
  messages,   \* Message rows in creation order: [id, chatId, role, content, timestamp]
  files,      \* File rows: id -> [projectId, originalName, mimeType, openaiFileId, status, errorMessage]
  ids,        \* rows ever created per table (ids are never reused), requests received
  req,        \* the send-message / getAIResponse invocations, one record per slot
  resp,       \* the response of the last request handled by a single-step handler
  client      \* the browser client: localStorage, auth state, upload list, call in flight

vars == <<env, onDelete, projects, chats, messages, files, ids, req, resp, client>>

\* ------------------------------------------------- the client at page load
\* localStorage.getItem of a key that is not stored
NoItem == "null"

EmptyStorage == [auth_token |-> NoItem, user_data |-> NoItem]

\* AuthContext.tsx initialState
initialState == [user |-> NoItem, token |-> NoItem, isLoading |-> TRUE,
                 isAuthenticated |-> FALSE]

NoCall == [via |-> "none"]

\* a freshly loaded page over the given localStorage: React state is initial,
\* no file is selected, nothing is in flight and the mount effect has yet to run
PageLoad(storage) ==
  [storage |-> storage, auth |-> initialState, files |-> << >>,
   isUploading |-> FALSE, call |-> NoCall, pc |-> "mount"]

\* ------------------------------------------------------------ table rows
\* nullable text columns hold Str(..) or JsNull
ProjectRow(id, userId, name, description, systemPrompt) ==
  [id |-> id, userId |-> userId, name |-> name, description |-> description,
   systemPrompt |-> systemPrompt]

ChatRow(id, projectId, title) == [id |-> id, projectId |-> projectId, title |-> title]

FileRow(id, projectId, originalName, mimeType, size, openaiFileId, status, errorMessage) ==
  [id |-> id, projectId |-> projectId, originalName |-> originalName,
   mimeType |-> mimeType, size |-> size, openaiFileId |-> openaiFileId, status |-> status,
   errorMessage |-> errorMessage]

\* the id the Files API returns for the upload behind File row n
RemoteId(n) == ToString(n)

\* File.openaiFileId before the remote upload succeeded (SQL NULL)
NoRemoteId == "<null>"

\* title || 'New Chat'
DefaultTitle == <<"New Chat">>

\* ------------------------------------------------------- database queries
\* a lookup by id alone
FindProject_AnyOwner(id, userId) ==
  IF id \in DOMAIN projects THEN projects[id] ELSE NULL

\* prisma.project.findFirst({ where: { id, userId } })
FindProject(id, userId) ==
  IF id \in DOMAIN projects /\ projects[id].userId = userId
  THEN projects[id] ELSE NULL

\* a lookup by id alone
FindChat_AnyOwner(id, userId) ==
  IF id \in DOMAIN chats THEN chats[id] ELSE NULL

\* prisma.chat.findFirst({ where: { id, project: { userId } } })
FindChat(id, userId) ==
  IF id \in DOMAIN chats /\ chats[id].projectId \in DOMAIN projects
     /\ projects[chats[id].projectId].userId = userId
  THEN chats[id] ELSE NULL

\* a lookup by id alone
FindFile_AnyOwner(id, userId) ==
  IF id \in DOMAIN files THEN files[id] ELSE NULL

\* prisma.file.findFirst({ where: { id, project: { userId } } })
FindFile(id, userId) ==
  IF id \in DOMAIN files /\ files[id].projectId \in DOMAIN projects
     /\ projects[files[id].projectId].userId = userId
  THEN files[id] ELSE NULL

\* the Message rows of a chat, as a set
ChatMessages(chatId) == {m \in Range(messages) : m.chatId = chatId}

\* orderBy: { timestamp: 'desc' } over a set of rows with distinct timestamps
RECURSIVE OrderByTimestampDesc(_)
OrderByTimestampDesc(S) ==
  IF S = {} THEN << >>
  ELSE LET newest == CHOOSE m \in S : \A o \in S : o.timestamp <= m.timestamp
       IN  <<newest>> \o OrderByTimestampDesc(S \ {newest})

\* take: n
Take(s, n) == SubSeq(s, 1, Min(n, Len(s)))

\* mutant: the query without `take`
RecentMessages_NoTake(chatId) == OrderByTimestampDesc(ChatMessages(chatId))

\* include: { messages: { orderBy: { timestamp: 'desc' }, take: 10 } }
RecentMessages(chatId) == Take(OrderByTimestampDesc(ChatMessages(chatId)), WindowSize)

\* include: { messages: { orderBy: { timestamp: 'asc' } } }
MessagesAsc(chatId) == Reverse(OrderByTimestampDesc(ChatMessages(chatId)))

\* prisma.message.create: the row gets the next id and the next timestamp
NewMessage(chatId, role, content) ==
  [id |-> ids.message + 1, chatId |-> chatId, role |-> role,
   content |-> content, timestamp |-> ids.message + 1]

\* Message.content is a required text column: a create without a string fails
MessageCreateFails(content) == content.t # "string"

\* --------------------------------------------------------- getAIResponse
\* preferredService = null is written "none"
Hints == {"none", OPENAI, OPENROUTER, "other"}

\* what one axios.post to a backend can end in
\*   ok          2xx with choices[0].message.content a string
\*   noContent   2xx with choices[0].message present and content null/undefined
\*   noChoices   2xx with a body that has no choices[0].message (TypeError on read)
\*   httpError   non-2xx status (axios rejects)
\*   timeout     no answer within 30 s (axios rejects)
Outcomes == {"ok", "noContent", "noChoices", "httpError", "timeout"}

\* the outcomes on which the try block of the loop throws
Throws(outcome) == outcome \in {"noChoices", "httpError", "timeout"}

\* response.data.choices[0].message.content of a non-throwing outcome
ReplyContent(outcome) == IF outcome = "ok" THEN Str(<<"r">>) ELSE JsNull

\* the `service` label the loop returns for a backend
ServiceLabel(service) ==
  IF service = OPENAI THEN "OpenAI GPT-3.5-turbo" ELSE "OpenRouter GPT-3.5-turbo"

\* mutant: the preferred service is ignored
ServiceOrder_NoPreference(preferred) ==
  (IF env.openai THEN <<OPENAI>> ELSE << >>)
  \o (IF env.openrouter THEN <<OPENROUTER>> ELSE << >>)

\* mutant: the preferred service is pushed without looking at its key
ServiceOrder_NoKeyCheck(preferred) ==
  LET first == IF preferred \in {OPENAI, OPENROUTER} THEN <<preferred>> ELSE << >>
      second == IF env.openai /\ OPENAI \notin Range(first)
                THEN Append(first, OPENAI) ELSE first
  IN  IF env.openrouter /\ OPENROUTER \notin Range(second)
      THEN Append(second, OPENROUTER) ELSE second

\* the services array: the preferred backend first when its key is set, then
\* every backend whose key is set and that is not in the array yet
ServiceOrder(preferred) ==
  LET first == IF preferred = OPENAI /\ env.openai THEN <<OPENAI>>
               ELSE IF preferred = OPENROUTER /\ env.openrouter THEN <<OPENROUTER>>
               ELSE << >>
      second == IF env.openai /\ OPENAI \notin Range(first)
                THEN Append(first, OPENAI) ELSE first
  IN  IF env.openrouter /\ OPENROUTER \notin Range(second)
      THEN Append(second, OPENROUTER) ELSE second

\* ------------------------------------------------- send-message helpers
DefaultPrompt == <<"You are a helpful assistant.">>

\* chat.js 254: the "- originalName (mimeType)" lines of the found rows
RECURSIVE FileLines(_)
FileLines(found) ==
  IF found = << >> THEN << >>
  ELSE <<"-">> \o Head(found).originalName \o <<Head(found).mimeType>>
       \o FileLines(Tail(found))

\* chat.js 253-255: fileContext
FileContextText(found) ==
  IF Len(found) > 0
  THEN <<"Context:", ToString(Len(found))>> \o FileLines(found)
       \o <<"Please consider these files">>
  ELSE << >>

\* the query without the project: { userId } condition
RECURSIVE FindFilesIn_AnyOwner(_, _, _)
FindFilesIn_AnyOwner(fileIds, userId, from) ==
  IF \A id \in DOMAIN files : id < from THEN << >>
  ELSE LET id == CHOOSE i \in DOMAIN files : i >= from /\ \A j \in DOMAIN files : j >= from => i <= j
           f == files[id]
           hit == f.openaiFileId # NoRemoteId /\ f.openaiFileId \in Range(fileIds)
       IN  (IF hit THEN <<f>> ELSE << >>) \o FindFilesIn_AnyOwner(fileIds, userId, id + 1)

\* prisma.file.findMany({ where: { openaiFileId: { in: fileIds }, project: { userId } } })
\* in id order
RECURSIVE FindFilesIn(_, _, _)
FindFilesIn(fileIds, userId, from) ==
  IF \A id \in DOMAIN files : id < from THEN << >>
  ELSE LET id == CHOOSE i \in DOMAIN files : i >= from /\ \A j \in DOMAIN files : j >= from => i <= j
           f == files[id]
           hit == /\ f.openaiFileId # NoRemoteId
                  /\ f.openaiFileId \in Range(fileIds)
                  /\ f.projectId \in DOMAIN projects
                  /\ projects[f.projectId].userId = userId
       IN  (IF hit THEN <<f>> ELSE << >>) \o FindFilesIn(fileIds, userId, id + 1)

\* conversationHistory: system entry, the fetched window oldest first, the new message
ConversationHistory(chat, fileContext, content) ==
  LET prompt == chat.project.systemPrompt
      window == Reverse(chat.messages)
  IN  <<[role |-> "system",
         content |-> (IF prompt # << >> THEN prompt ELSE DefaultPrompt) \o fileContext]>>
      \o [i \in 1 .. Len(window) |-> [role |-> window[i].role, content |-> window[i].content]]
      \o <<[role |-> "user", content |-> Trim(content.s)]>>

\* the canned reply: responses[k] plus the note about the system prompt
FallbackContent(k, content, prompt) ==
  LET template ==
        CASE k = 1 -> <<"I apologize, connectivity issues">>
          [] k = 2 -> <<"Based on your question about">> \o Slice(content.s, 0, Slice30)
                        \o <<"offline mode">>
          [] k = 3 -> <<"Thank you for your message">>
          [] OTHER -> <<"I understand you're asking about">> \o Slice(content.s, 0, Slice20)
                        \o <<"basic assistance">>
  IN  template \o (IF prompt # << >>
                   THEN <<"Note: I'm configured as:">> \o Slice(prompt, 0, Slice100) \o <<"...">>
                   ELSE << >>)

FallbackLabel == "Fallback Mode"

\* Express responses
Json400(message) == [status |-> 400, success |-> FALSE, message |-> message, data |-> NULL]
Json404(message) == [status |-> 404, success |-> FALSE, message |-> message, data |-> NULL]
Json500(message) == [status |-> 500, success |-> FALSE, message |-> message, data |-> NULL]
Json200(message, data) == [status |-> 200, success |-> TRUE, message |-> message, data |-> data]
Json201(message, data) == [status |-> 201, success |-> TRUE, message |-> message, data |-> data]

IdleReq ==
  [pc |-> "idle", user |-> "A", chatId |-> 0, content |-> Undefined, fileIds |-> << >>,
   chat |-> NULL, userMessage |-> NULL, fileContext |-> << >>, conversation |-> << >>,
   preferred |-> "none", services |-> << >>, idx |-> 0, attempts |-> << >>,
   aiResult |-> NULL, assistantMessage |-> NULL, response |-> NULL,
   before |-> << >>]

\* ------------------------------------------- POST /chats/:chatId/messages
\* request inputs
ChatIds == 1 .. 3
Contents == {Undefined, Num, Str(<<" ">>), Str(<<" ", "a", " ">>)}
FileIdLists == {<< >>, <<RemoteId(1), RemoteId(2)>>}

Set(r, rec) == req' = [req EXCEPT ![r] = rec]

\* only `!content` is tested
ValidateContent_NoTrim(content) ==
  IF ~Truthy(content) THEN Json400("Message content is required")
  ELSE IF content.t # "string" THEN Json500("Internal server error")
  ELSE NULL

\* chat.js 198-205: `!content || content.trim() === ''` (NULL: the content
\* passes; on a non-string content.trim is not a function and the outer catch
\* of 330-336 answers)
ValidateContent(content) ==
  IF ~Truthy(content) THEN Json400("Message content is required")
  ELSE IF content.t # "string" THEN Json500("Internal server error")
  ELSE IF Trim(content.s) = << >> THEN Json400("Message content is required")
  ELSE NULL

\* chat.js 207-229: what the send handler answers right after its chat lookup
\* (NULL: it goes on to write the user message)
SendLookupResponse(user, chatId) ==
  IF FindChat(chatId, user) = NULL THEN Json404("Chat not found") ELSE NULL

\* chat.js 195-205: the handler is entered and validates `content`
\* (each input of the request is drawn in the step that first reads it)
SendMessage(r) ==
  /\ req[r].pc \in {"idle", "done"}
  /\ ids.request < MaxSends
  /\ ids' = [ids EXCEPT !.request = @ + 1]
  /\ \E content \in Contents :
       LET q == [IdleReq EXCEPT !.content = content]
           rejection == ValidateContent(content)
       IN  IF rejection # NULL
           THEN Set(r, [q EXCEPT !.pc = "done", !.response = rejection])
           ELSE Set(r, [q EXCEPT !.pc = "findChat"])
  /\ UNCHANGED <<client, env, onDelete, projects, chats, messages, files, resp>>

\* chat.js 207-229: the chat, its project and its ten newest messages
\* (`before` remembers the Message table the query ran on)
LookupChat(r) ==
  /\ req[r].pc = "findChat"
  /\ \E user \in Users, chatId \in ChatIds :
       LET chat == FindChat(chatId, user)
           rejection == SendLookupResponse(user, chatId)
           q == [req[r] EXCEPT !.user = user, !.chatId = chatId, !.before = messages]
       IN  IF rejection # NULL
           THEN Set(r, [q EXCEPT !.pc = "done", !.response = rejection])
           ELSE Set(r, [q EXCEPT
                    !.pc = "saveUser",
                    !.chat = [id |-> chatId, projectId |-> chat.projectId,
                              project |-> projects[chat.projectId],
                              messages |-> RecentMessages(chatId)]])
  /\ UNCHANGED <<client, env, onDelete, projects, chats, messages, files, ids, resp>>

\* chat.js 261-282 and 16-35: build conversationHistory and enter getAIResponse
\* (the route passes no preferred service)
EnterGetAIResponse(q, fileContext) ==
  [q EXCEPT !.pc = "attempt",
            !.fileContext = fileContext,
            !.conversation = ConversationHistory(q.chat, fileContext, q.content),
            !.preferred = "none",
            !.services = ServiceOrder("none"),
            !.idx = 1]

\* mutant: the user message is built but its row is written only later
SaveUserMessage_Deferred(r) ==
  /\ req[r].pc = "saveUser"
  /\ \E fileIds \in FileIdLists :
       LET m == NewMessage(req[r].chatId, "user", Trim(req[r].content.s))
           q == [req[r] EXCEPT !.userMessage = m, !.fileIds = fileIds]
       IN  IF Len(fileIds) > 0
           THEN Set(r, [q EXCEPT !.pc = "fileContext"])
           ELSE Set(r, EnterGetAIResponse(q, << >>))
  /\ UNCHANGED <<client, env, onDelete, projects, chats, messages, files, ids, resp>>

\* chat.js 231-242: the user message is written
SaveUserMessage(r) ==
  /\ req[r].pc = "saveUser"
  /\ \E fileIds \in FileIdLists :
       LET m == NewMessage(req[r].chatId, "user", Trim(req[r].content.s))
           q == [req[r] EXCEPT !.userMessage = m, !.fileIds = fileIds]
       IN  /\ messages' = Append(messages, m)
           /\ ids' = [ids EXCEPT !.message = @ + 1]
           /\ IF Len(fileIds) > 0
              THEN Set(r, [q EXCEPT !.pc = "fileContext"])
              ELSE Set(r, EnterGetAIResponse(q, << >>))
  /\ UNCHANGED <<client, env, onDelete, projects, chats, files, resp>>

\* chat.js 243-259: the file lookup answers, or fails and is only logged
LookupFileContext(r) ==
  /\ req[r].pc = "fileContext"
  /\ \E failed \in BOOLEAN :
       Set(r, EnterGetAIResponse(req[r],
              IF failed THEN << >>
              ELSE FileContextText(FindFilesIn(req[r].fileIds, req[r].user, 1))))
  /\ UNCHANGED <<client, env, onDelete, projects, chats, messages, files, ids, resp>>

\* chat.js 35-105: one pass of the loop over services
AttemptService(r) ==
  /\ req[r].pc = "attempt"
  /\ req[r].idx <= Len(req[r].services)
  /\ \E outcome \in Outcomes :
       LET service == req[r].services[req[r].idx]
           q == [req[r] EXCEPT !.attempts = Append(@, [service |-> service, outcome |-> outcome])]
       IN  IF Throws(outcome)
           THEN Set(r, [q EXCEPT !.idx = @ + 1])
           ELSE Set(r, [q EXCEPT !.pc = "aiReturned",
                                 !.aiResult = [content |-> ReplyContent(outcome),
                                               service |-> ServiceLabel(service),
                                               usage |-> "usage"]])
  /\ UNCHANGED <<client, env, onDelete, projects, chats, messages, files, ids, resp>>

\* the loop starts over when it has run out of services
AllServicesFailed_Restart(r) ==
  /\ req[r].pc = "attempt"
  /\ req[r].idx > Len(req[r].services)
  /\ Set(r, [req[r] EXCEPT !.idx = 1, !.attempts = << >>])
  /\ UNCHANGED <<client, env, onDelete, projects, chats, messages, files, ids, resp>>

\* chat.js 106-110: the loop ran out of services
AllServicesFailed(r) ==
  /\ req[r].pc = "attempt"
  /\ req[r].idx > Len(req[r].services)
  /\ Set(r, [req[r] EXCEPT !.pc = "aiThrown"])
  /\ UNCHANGED <<client, env, onDelete, projects, chats, messages, files, ids, resp>>

\* chat.js 277-302: the result of getAIResponse, or the canned reply on a throw
FallbackResult(k, q) ==
  [content |-> Str(FallbackContent(k, q.content, q.chat.project.systemPrompt)),
   service |-> FallbackLabel, usage |-> NULL]

ResumeAfterAI(r) ==
  /\ req[r].pc \in {"aiReturned", "aiThrown"}
  /\ IF req[r].pc = "aiReturned"
     THEN Set(r, [req[r] EXCEPT !.pc = "saveAssistant"])
     ELSE \E k \in 1 .. NumTemplates :
            Set(r, [req[r] EXCEPT !.pc = "saveAssistant",
                                  !.aiResult = FallbackResult(k, req[r])])
  /\ UNCHANGED <<client, env, onDelete, projects, chats, messages, files, ids, resp>>

\* chat.js 304-336: the assistant message is written and the response sent
SendResponse(q, assistantMessage) ==
  Json200("", [userMessage |-> q.userMessage, assistantMessage |-> assistantMessage,
               metadata |-> [service |-> q.aiResult.service, usage |-> q.aiResult.usage]])

\* the reply is stored by rewriting the user message of the request
SaveAssistantMessage_Overwrite(r) ==
  /\ req[r].pc = "saveAssistant"
  /\ IF MessageCreateFails(req[r].aiResult.content)
     THEN /\ Set(r, [req[r] EXCEPT !.pc = "done",
                                   !.response = Json500("Internal server error")])
          /\ UNCHANGED <<messages, ids>>
     ELSE LET m == [req[r].userMessage EXCEPT !.role = "assistant",
                                              !.content = req[r].aiResult.content.s]
          IN  /\ messages' = [i \in 1 .. Len(messages) |->
                                IF messages[i].id = m.id THEN m ELSE messages[i]]
              /\ UNCHANGED ids
              /\ Set(r, [req[r] EXCEPT !.pc = "done", !.assistantMessage = m,
                                       !.response = SendResponse(req[r], m)])
  /\ UNCHANGED <<client, env, onDelete, projects, chats, files, resp>>

SaveAssistantMessage(r) ==
  /\ req[r].pc = "saveAssistant"
  /\ IF MessageCreateFails(req[r].aiResult.content)
     THEN /\ Set(r, [req[r] EXCEPT !.pc = "done",
                                   !.response = Json500("Internal server error")])
          /\ UNCHANGED <<messages, ids>>
     ELSE LET m == NewMessage(req[r].chatId, "assistant", req[r].aiResult.content.s)
          IN  /\ messages' = Append(messages, m)
              /\ ids' = [ids EXCEPT !.message = @ + 1]
              /\ Set(r, [req[r] EXCEPT !.pc = "done", !.assistantMessage = m,
                                       !.response = SendResponse(req[r], m)])
  /\ UNCHANGED <<client, env, onDelete, projects, chats, files, resp>>

\* ------------------------------------------------ specification: sending

\* the rows of a chat that has already seen n messages
\* and, after them, one exchange in B's chat
PriorMessages(n) ==
  [i \in 1 .. n + 2 |-> [id |-> i, chatId |-> IF i <= n THEN 1 ELSE 2,
                         role |-> IF (n + 2 - i) % 2 = 1 THEN "user" ELSE "assistant",
                         content |-> IF (n + 2 - i) % 2 = 1 THEN <<"a">> ELSE <<"r">>,
                         timestamp |-> i]]

\* chats shorter than, as long as and longer than the window
PriorCounts == {0, WindowSize - 1, WindowSize, MaxPrior}

NoResponse == [handler |-> "none"]

InitSend ==
  /\ env \in [openai : BOOLEAN, openrouter : BOOLEAN]
  /\ onDelete = "Cascade"
  /\ projects = (1 :> ProjectRow(1, "A", <<"bot">>, JsNull, <<"p">>))
                @@ (2 :> ProjectRow(2, "B", <<"bot">>, JsNull, <<"p">>))
  /\ chats = (1 :> ChatRow(1, 1, DefaultTitle)) @@ (2 :> ChatRow(2, 2, DefaultTitle))
  /\ \E n \in PriorCounts : messages = PriorMessages(n)
  /\ files = (1 :> FileRow(1, 1, <<"a", ".", "txt">>, "text/plain", 1, RemoteId(1), "processed", JsNull))
             @@ (2 :> FileRow(2, 2, <<"b", ".", "txt">>, "text/plain", 1, RemoteId(2), "processed", JsNull))
  /\ ids = [project |-> 2, chat |-> 2, message |-> Len(messages), file |-> 2,
            request |-> 0]
  /\ req = [r \in Reqs |-> IdleReq]
  /\ resp = NoResponse
  /\ client = PageLoad(EmptyStorage)

NextSend ==
  \E r \in {1} :
    \/ SendMessage(r)
    \/ LookupChat(r)
    \/ SaveUserMessage(r)
    \/ LookupFileContext(r)
    \/ AttemptService(r)
    \/ AllServicesFailed(r)
    \/ ResumeAfterAI(r)
    \/ SaveAssistantMessage(r)

SpecSend == InitSend /\ [][NextSend]_vars

\* a step of the handler invocation r after it has been entered: each awaited
\* database or backend call returns, fails or times out
HandlerStep(r) ==
  \/ LookupChat(r)
  \/ SaveUserMessage(r)
  \/ LookupFileContext(r)
  \/ AttemptService(r)
  \/ AllServicesFailed(r)
  \/ ResumeAfterAI(r)
  \/ SaveAssistantMessage(r)

\* the database of InitSend with a fresh chat of user A, under every
\* configuration of the two API keys
InitSendFair ==
  /\ env \in [openai : BOOLEAN, openrouter : BOOLEAN]
  /\ onDelete = "Cascade"
  /\ projects = (1 :> ProjectRow(1, "A", <<"bot">>, JsNull, <<"p">>))
                @@ (2 :> ProjectRow(2, "B", <<"bot">>, JsNull, <<"p">>))
  /\ chats = (1 :> ChatRow(1, 1, DefaultTitle)) @@ (2 :> ChatRow(2, 2, DefaultTitle))
  /\ messages = PriorMessages(0)
  /\ files = (1 :> FileRow(1, 1, <<"a", ".", "txt">>, "text/plain", 1, RemoteId(1), "processed", JsNull))
             @@ (2 :> FileRow(2, 2, <<"b", ".", "txt">>, "text/plain", 1, RemoteId(2), "processed", JsNull))
  /\ ids = [project |-> 2, chat |-> 2, message |-> Len(messages), file |-> 2,
            request |-> 0]
  /\ req = [r \in Reqs |-> IdleReq]
  /\ resp = NoResponse
  /\ client = PageLoad(EmptyStorage)

\* sending, with every awaited call of an invocation in flight answered in the end
SpecSendFair == InitSendFair /\ [][NextSend]_vars /\ WF_vars(HandlerStep(1))

\* ------------------------------------------ specification: getAIResponse
\* getAIResponse(messages, preferredService) called on its own, with every hint
Conversations ==
  {<<[role |-> "system", content |-> DefaultPrompt], [role |-> "user", content |-> <<"a">>]>>}

CallGetAIResponse(r) ==
  /\ req[r].pc \in {"idle", "aiReturned", "aiThrown"}
  /\ \E conversation \in Conversations, preferred \in Hints :
       Set(r, [IdleReq EXCEPT !.pc = "attempt", !.conversation = conversation,
                              !.preferred = preferred,
                              !.services = ServiceOrder(preferred), !.idx = 1])
  /\ UNCHANGED <<client, env, onDelete, projects, chats, messages, files, ids, resp>>

InitAI ==
  /\ env \in [openai : BOOLEAN, openrouter : BOOLEAN]
  /\ onDelete = "Cascade"
  /\ projects = << >>
  /\ chats = << >>
  /\ messages = << >>
  /\ files = << >>
  /\ ids = [project |-> 0, chat |-> 0, message |-> 0, file |-> 0, request |-> 0]
  /\ req = [r \in Reqs |-> IdleReq]
  /\ resp = NoResponse
  /\ client = PageLoad(EmptyStorage)

NextAI ==
  \E r \in {1} :
    \/ CallGetAIResponse(r)
    \/ AttemptService(r)
    \/ AllServicesFailed(r)

SpecAI == InitAI /\ [][NextAI]_vars

\* ------------------------------------------------------ routes/projects.js
\* a set of row ids, newest first (rows are created in id order)
RECURSIVE IdsDesc(_)
IdsDesc(S) ==
  IF S = {} THEN << >>
  ELSE LET top == CHOOSE i \in S : \A j \in S : j <= i
       IN  <<top>> \o IdsDesc(S \ {top})

ProjectChats(projectId) == {c \in DOMAIN chats : chats[c].projectId = projectId}
ProjectFiles(projectId) == {f \in DOMAIN files : files[f].projectId = projectId}

\* the chats of a project, newest first, at most n of them
LatestChats(projectId, n) ==
  LET order == Take(IdsDesc(ProjectChats(projectId)), n)
  IN  [i \in 1 .. Len(order) |-> chats[order[i]]]

\* projects.js 9-42: GET /
ListProjectsResponse(user) ==
  LET order == IdsDesc({id \in DOMAIN projects : projects[id].userId = user})
  IN  Json200("", [projects |->
        [i \in 1 .. Len(order) |->
           [project |-> projects[order[i]],
            chatCount |-> Cardinality(ProjectChats(order[i])),
            chats |-> LatestChats(order[i], 1)]]])

\* projects.js 82-116: GET /:id
GetProjectResponse(user, id) ==
  LET project == FindProject(id, user)
  IN  IF project = NULL THEN Json404("Project not found")
      ELSE Json200("", [project |-> project, chats |-> LatestChats(id, ChatsShown)])

\* the update writes the three fields of the body as they come
UpdatedProject_AsGiven(existing, name, description, systemPrompt) ==
  [existing EXCEPT
     !.name = name.s,
     !.description = IF description.t = "undefined" THEN existing.description ELSE description,
     !.systemPrompt = systemPrompt.s]

\* projects.js 119-160: PUT /:id  (an absent description leaves the column alone)
UpdatedProject(existing, name, description, systemPrompt) ==
  [existing EXCEPT
     !.name = IF Truthy(name) THEN name.s ELSE existing.name,
     !.description = IF description.t = "undefined" THEN existing.description ELSE description,
     !.systemPrompt = IF Truthy(systemPrompt) THEN systemPrompt.s ELSE existing.systemPrompt]

UpdateProjectResponse(user, id, name, description, systemPrompt) ==
  LET existing == FindProject(id, user)
  IN  IF existing = NULL THEN Json404("Project not found")
      ELSE Json200("Project updated successfully",
                   [project |-> UpdatedProject(existing, name, description, systemPrompt)])

\* projects.js 163-196: DELETE /:id  (the delete throws when the schema restricts it)
DeleteRestricted(id) ==
  onDelete = "Restrict" /\ (ProjectChats(id) # {} \/ ProjectFiles(id) # {})

DeleteProjectResponse(user, id) ==
  IF FindProject(id, user) = NULL THEN Json404("Project not found")
  ELSE IF DeleteRestricted(id) THEN Json500("Internal server error")
  ELSE Json200("Project deleted successfully", NULL)

Without(f, S) == [k \in DOMAIN f \ S |-> f[k]]

Respond(handler, user, id, response) ==
  resp' = [handler |-> handler, user |-> user, id |-> id, response |-> response]

\* request inputs
ProjectIds == 1 .. MaxProjects + 1
\* bodies {name, description, systemPrompt}: complete, without a name, with an
\* empty system prompt
Bodies ==
  {[name |-> Str(<<"n">>), description |-> Str(<<"d">>), systemPrompt |-> Str(<<"q">>)],
   [name |-> Undefined, description |-> Undefined, systemPrompt |-> Str(<<"q">>)],
   [name |-> Str(<<"n">>), description |-> Undefined, systemPrompt |-> Str(<<>>)]}

\* projects.js 45-79: POST /
CreateProject(user, name, description, systemPrompt) ==
  /\ ids.project < MaxProjects
  /\ IF ~Truthy(name) \/ ~Truthy(systemPrompt)
     THEN /\ Respond("createProject", user, 0, Json400("Name and system prompt are required"))
          /\ UNCHANGED <<projects, ids>>
     ELSE LET id == ids.project + 1
              row == ProjectRow(id, user, name.s,
                                IF description.t = "undefined" THEN JsNull ELSE description,
                                systemPrompt.s)
          IN  /\ projects' = projects @@ (id :> row)
              /\ ids' = [ids EXCEPT !.project = id]
              /\ Respond("createProject", user, id,
                         Json201("Project created successfully", [project |-> row]))
  /\ UNCHANGED <<client, env, onDelete, chats, messages, files, req>>

UpdateProject(user, id, name, description, systemPrompt) ==
  /\ LET response == UpdateProjectResponse(user, id, name, description, systemPrompt)
     IN  /\ Respond("updateProject", user, id, response)
         /\ projects' = IF response.status = 200
                        THEN [projects EXCEPT ![id] = response.data.project]
                        ELSE projects
  /\ UNCHANGED <<client, env, onDelete, chats, messages, files, ids, req>>

DeleteProject(user, id) ==
  /\ LET response == DeleteProjectResponse(user, id)
     IN  /\ Respond("deleteProject", user, id, response)
         /\ IF response.status = 200 /\ onDelete = "Cascade"
            THEN /\ projects' = Without(projects, {id})
                 /\ chats' = Without(chats, ProjectChats(id))
                 /\ files' = Without(files, ProjectFiles(id))
                 /\ messages' = SelectSeq(messages, LAMBDA m : m.chatId \notin ProjectChats(id))
            ELSE IF response.status = 200
            THEN /\ projects' = Without(projects, {id})
                 /\ UNCHANGED <<chats, files, messages>>
            ELSE UNCHANGED <<projects, chats, files, messages>>
  /\ UNCHANGED <<client, env, onDelete, ids, req>>

\* ---------------------------------------- routes/chat.js: chats, messages
\* chat.js 112-151: POST /projects/:projectId/chats
CreateChatResponse(user, projectId, title) ==
  IF FindProject(projectId, user) = NULL THEN Json404("Project not found")
  ELSE Json201("", [chat |-> ChatRow(ids.chat + 1, projectId,
                                     IF Truthy(title) THEN title.s ELSE DefaultTitle)])

Titles == {Undefined, Str(<<"t">>)}

CreateChat(user, projectId, title) ==
  /\ ids.chat < MaxChats
  /\ LET response == CreateChatResponse(user, projectId, title)
     IN  /\ Respond("createChat", user, projectId, response)
         /\ IF response.status = 201
            THEN /\ chats' = chats @@ (ids.chat + 1 :> response.data.chat)
                 /\ ids' = [ids EXCEPT !.chat = @ + 1]
            ELSE UNCHANGED <<chats, ids>>
  /\ UNCHANGED <<client, env, onDelete, projects, messages, files, req>>

\* chat.js 154-192: GET /chats/:chatId/messages
ListMessagesResponse(user, chatId) ==
  IF FindChat(chatId, user) = NULL THEN Json404("Chat not found")
  ELSE Json200("", [messages |-> MessagesAsc(chatId)])

\* --------------------------------------------------------- routes/files.js
\* files.js 35-57
AllowedTypes ==
  {"text/plain", "text/markdown", "application/pdf", "application/msword",
   "application/vnd.openxmlformats-officedocument.wordprocessingml.document",
   "text/csv", "application/json", "text/javascript", "application/javascript",
   "text/typescript", "text/jsx", "text/tsx", "text/python", "text/html", "text/css",
   "application/x-python-code", "text/x-python"}

AllowedExtensions ==
  {".txt", ".md", ".pdf", ".doc", ".docx", ".csv", ".json", ".js", ".ts", ".tsx",
   ".jsx", ".py", ".html", ".css"}

\* String.prototype.toLowerCase on the tokens file names are made of
ToLowerCase(token) ==
  CASE token = "TXT" -> "txt"
    [] token = "EXE" -> "exe"
    [] OTHER -> token

RECURSIVE JoinLower(_)
JoinLower(tokens) ==
  IF tokens = << >> THEN "" ELSE ToLowerCase(Head(tokens)) \o JoinLower(Tail(tokens))

\* path.extname(name).toLowerCase(): from the last "." to the end, "" when there
\* is no "." or the only one starts the name
ExtName(name) ==
  LET dots == {i \in 2 .. Len(name) : name[i] = "."}
  IN  IF dots = {} THEN ""
      ELSE JoinLower(SubSeq(name, CHOOSE i \in dots : \A j \in dots : j <= i, Len(name)))

\* files.js 59-65: fileFilter
FileFilter(file) ==
  file.mimetype \in AllowedTypes \/ ExtName(file.originalname) \in AllowedExtensions

\* what a client can put into the multipart body
UploadFiles ==
  {[originalname |-> <<"notes", ".", "TXT">>, mimetype |-> "application/octet-stream",
    size |-> 1],
   [originalname |-> <<"tool", ".", "exe">>, mimetype |-> "application/octet-stream",
    size |-> 2],
   [originalname |-> <<"tool", ".", "exe">>, mimetype |-> "text/plain", size |-> 2]}

Batches == {<< >>} \cup {<<f>> : f \in UploadFiles} \cup {<<f, g>> : f, g \in UploadFiles}

\* files.js 28-67 and 92-124: what stops an upload before its loop (NULL: the
\* loop runs).  An error of fileFilter reaches the error middleware of index.js.
UploadRejection(user, projectId, batch) ==
  IF \E i \in 1 .. Len(batch) : ~FileFilter(batch[i])
  THEN Json500("Internal server error")
  ELSE IF Len(batch) = 0 THEN Json400("No files provided")
  ELSE IF FindProject(projectId, user) = NULL THEN Json404("Project not found")
  ELSE NULL

\* a handler of files.js has answered: its locals are gone, its response is out
Finished(handler, response) == [pc |-> "done", handler |-> handler, response |-> response]

\* the upload handler has answered; local: the files of the request that multer
\* wrote to the upload directory and that are still there (by index)
UploadFinished(response, local) ==
  [pc |-> "done", handler |-> "upload", response |-> response, local |-> local]

\* the staged files stay in the upload directory
Unlink_Nothing(local, paths) == local

\* files.js 113-117, 181-183, 194-196: fs.unlinkSync(file.path) for `paths`
Unlink(local, paths) == local \ paths

\* files.js 92-127: POST /projects/:projectId/upload is entered, after multer
\* has written the accepted files of the batch to the upload directory (a batch
\* that multer refuses leaves none behind)
UploadRequest(r, user, projectId, batch) ==
  /\ req[r].pc \in {"idle", "done"}
  /\ ids.file + Len(batch) <= MaxFiles
  /\ LET rejection == UploadRejection(user, projectId, batch)
         staged == 1 .. Len(batch)
         q == [pc |-> "create", handler |-> "upload", user |-> user,
               projectId |-> projectId, batch |-> batch, i |-> 1, fileRecord |-> NULL,
               uploadedFiles |-> << >>, errors |-> << >>, staging |-> << >>,
               local |-> staged, response |-> NULL]
     IN  IF rejection # NULL
         THEN Set(r, UploadFinished(rejection,
                       IF rejection.status = 404 THEN Unlink(staged, staged) ELSE {}))
         ELSE Set(r, q)
  /\ UNCHANGED <<client, env, onDelete, projects, chats, messages, files, ids, resp>>

\* the loop of files.js 129-198 goes on to the next file, or is over
NextFile(q) ==
  [q EXCEPT !.i = @ + 1, !.pc = IF q.i + 1 > Len(q.batch) THEN "respond" ELSE "create"]

\* files.js 129-141 and 186-197: the File row of batch[i] is created; when the
\* write throws (writes: TRUE it is done, FALSE it throws) the file is listed
\* in errors and its local file removed
CreateFileRecordWith(r, writes) ==
  /\ req[r].pc = "create"
  /\ \E written \in writes :
       LET file == req[r].batch[req[r].i]
           row == FileRow(ids.file + 1, req[r].projectId, file.originalname, file.mimetype,
                          file.size, NoRemoteId, "uploading", JsNull)
       IN  IF written
           THEN /\ files' = files @@ (row.id :> row)
                /\ ids' = [ids EXCEPT !.file = row.id]
                /\ Set(r, [req[r] EXCEPT !.pc = "stage", !.fileRecord = row])
           ELSE /\ UNCHANGED <<files, ids>>
                /\ Set(r, NextFile([req[r] EXCEPT
                            !.errors = Append(@, [filename |-> file.originalname,
                                                  error |-> "Write failed"]),
                            !.local = Unlink(@, {req[r].i})]))
  /\ UNCHANGED <<client, env, onDelete, projects, chats, messages, resp>>

\* the database answers every write
CreateFileRecord(r) == CreateFileRecordWith(r, {TRUE})

\* files.js 200-207
UploadResponse(uploadedFiles, errors) ==
  Json200(ToString(Len(uploadedFiles)) \o " files uploaded successfully",
          [files |-> uploadedFiles, errors |-> errors])

\* the row is marked processed but gets no reference id
ProcessedRow_NoReference(row, remoteId) == [row EXCEPT !.status = "processed"]

\* files.js 148-160: data { openaiFileId: openaiFile.id, status: 'processed' }
ProcessedRow(row, remoteId) ==
  [row EXCEPT !.openaiFileId = remoteId, !.status = "processed"]

\* the row is left as it was created
FailedRow_Untouched(row) == row

\* files.js 166-178: data { status: 'error', errorMessage }
FailedRow(row) ==
  [row EXCEPT !.status = "error", !.errorMessage = Str(<<"Failed to upload to OpenAI">>)]

\* the file is pushed to uploadedFiles before its row is updated
Listed_BeforeUpdate(q, record, result) ==
  [q EXCEPT
     !.uploadedFiles =
        IF result = "error" THEN Append(@, FailedRow(record))
        ELSE Append(@, ProcessedRow(record, RemoteId(record.id))),
     !.errors =
        IF result # "thrown" THEN @
        ELSE Append(@, [filename |-> record.originalName, error |-> "Write failed"])]

\* files.js 156-160, 174-178, 186-191: where the file of `record` is listed.
\* result: "processed" (148-154 done), "error" (166-172 done), "thrown" (the
\* update of 166-172 threw into the catch of 186)
Listed(q, record, result) ==
  [q EXCEPT
     !.uploadedFiles =
        CASE result = "processed" -> Append(@, ProcessedRow(record, RemoteId(record.id)))
          [] result = "error" -> Append(@, FailedRow(record))
          [] OTHER -> @,
     !.errors =
        IF result # "thrown" THEN @
        ELSE Append(@, [filename |-> record.originalName,
                        error |-> IF record.id \in DOMAIN files
                                  THEN "Write failed"
                                  ELSE "Record to update not found"])]

\* files.js 143-198: uploadToOpenAI answers or throws, the row is updated, the
\* local file removed and the loop goes on.  An update throws when the row has
\* been deleted meanwhile or when the write fails (writes: TRUE it is done,
\* FALSE it throws); a throw of the first update lands in the catch of 162, a
\* throw of the second in the catch of 186.
StageFileWith(r, writes) ==
  /\ req[r].pc = "stage"
  /\ \E ok \in {b \in BOOLEAN : b => env.openai}, first \in writes, second \in writes :
       LET record == req[r].fileRecord
           id == record.id
           present == id \in DOMAIN files
           processed == ok /\ present /\ first
           failed == ~processed /\ present /\ second
           result == IF processed THEN "processed" ELSE IF failed THEN "error" ELSE "thrown"
           q == [Listed(req[r], record, result) EXCEPT
                   !.staging = Append(@, [id |-> id, ok |-> ok, present |-> present,
                                          result |-> result]),
                   !.local = Unlink(@, {req[r].i})]
       IN  /\ files' = CASE processed -> [files EXCEPT ![id] = ProcessedRow(@, RemoteId(id))]
                         [] failed -> [files EXCEPT ![id] = FailedRow(@)]
                         [] OTHER -> files
           /\ Set(r, NextFile(q))
  /\ UNCHANGED <<client, env, onDelete, projects, chats, messages, ids, resp>>

\* the database answers every write
StageFile(r) == StageFileWith(r, {TRUE})

\* files.js 200-207: the loop is over
UploadRespond(r) ==
  /\ req[r].pc = "respond"
  /\ Set(r, UploadFinished(UploadResponse(req[r].uploadedFiles, req[r].errors),
                           req[r].local))
  /\ UNCHANGED <<client, env, onDelete, projects, chats, messages, files, ids, resp>>

\* files.js 229-265: GET /projects/:projectId/files
ListFilesResponse(user, projectId) ==
  IF FindProject(projectId, user) = NULL THEN Json404("Project not found")
  ELSE LET order == IdsDesc(ProjectFiles(projectId))
       IN  Json200("", [files |-> [i \in 1 .. Len(order) |-> files[order[i]]]])

\* files.js 268-320: DELETE /files/:fileId  (a failed remote delete is only logged)
DeleteFileResponse(user, fileId) ==
  IF FindFile(fileId, user) = NULL THEN Json404("File not found")
  ELSE Json200("File deleted successfully", NULL)

\* files.js 268-290: the handler is entered and looks the file up
DeleteFileRequest(r, user, fileId) ==
  /\ req[r].pc \in {"idle", "done"}
  /\ LET file == FindFile(fileId, user)
         response == DeleteFileResponse(user, fileId)
         q == [pc |-> "deleteRow", handler |-> "deleteFile", user |-> user,
               fileId |-> fileId, file |-> file, remote |-> << >>, response |-> NULL]
     IN  IF response.status = 404
         THEN Set(r, Finished("deleteFile", response))
         ELSE Set(r, [q EXCEPT !.pc = IF file.openaiFileId # NoRemoteId /\ env.openai
                                      THEN "remoteDelete" ELSE "deleteRow"])
  /\ UNCHANGED <<client, env, onDelete, projects, chats, messages, files, ids, resp>>

\* a throw of axios.delete reaches the handler's outer catch
AfterRemoteDelete_NoCatch(q, ok) ==
  IF ok THEN [q EXCEPT !.pc = "deleteRow", !.remote = <<[id |-> q.file.openaiFileId, ok |-> ok]>>]
  ELSE Finished("deleteFile", Json500("Failed to delete file"))

\* files.js 291-301: try { await axios.delete } catch { console.error }
AfterRemoteDelete(q, ok) ==
  [q EXCEPT !.pc = "deleteRow", !.remote = <<[id |-> q.file.openaiFileId, ok |-> ok]>>]

\* files.js 290-301: axios.delete answers or throws
RemoteDelete(r) ==
  /\ req[r].pc = "remoteDelete"
  /\ \E ok \in BOOLEAN : Set(r, AfterRemoteDelete(req[r], ok))
  /\ UNCHANGED <<client, env, onDelete, projects, chats, messages, files, ids, resp>>

\* files.js 303-319: the row is deleted and the response sent; a delete of a row
\* that is gone throws into the outer catch
DeleteRow(r) ==
  /\ req[r].pc = "deleteRow"
  /\ LET present == req[r].fileId \in DOMAIN files
         response == IF present THEN DeleteFileResponse(req[r].user, req[r].fileId)
                     ELSE Json500("Failed to delete file")
     IN  /\ files' = IF present THEN Without(files, {req[r].fileId}) ELSE files
         /\ Set(r, Finished("deleteFile", response))
  /\ UNCHANGED <<client, env, onDelete, projects, chats, messages, ids, resp>>

\* files.js 323-383: GET /:fileId/content
FileContentResponse(user, fileId, remoteOk) ==
  LET file == FindFile(fileId, user)
  IN  IF file = NULL THEN Json404("File not found")
      ELSE IF file.openaiFileId = NoRemoteId THEN Json400("File not processed yet")
      ELSE IF remoteOk
      THEN Json200("", [content |-> <<"content of", file.openaiFileId>>,
                        filename |-> file.originalName, mimeType |-> file.mimeType])
      ELSE Json500("Failed to retrieve file content")

\* ------------------------------------ specifications: projects and files
\* The GET handlers change nothing: each is the operator that computes its
\* response (ListProjectsResponse, GetProjectResponse, ListMessagesResponse,
\* ListFilesResponse, FileContentResponse).  The handlers that write are actions;
\* `resp` keeps the request and the response of the last one.
ChatIdInputs == 1 .. MaxChats + 1
FileIdInputs == 1 .. MaxFiles + 1

\* two users, each with a project, a chat with one exchange and a processed file
SeededDb ==
  /\ projects = (1 :> ProjectRow(1, "A", <<"bot">>, JsNull, <<"p">>))
                @@ (2 :> ProjectRow(2, "B", <<"bot">>, JsNull, <<"p">>))
  /\ chats = (1 :> ChatRow(1, 1, DefaultTitle)) @@ (2 :> ChatRow(2, 2, DefaultTitle))
  /\ messages = PriorMessages(2)
  /\ files = (1 :> FileRow(1, 1, <<"a", ".", "txt">>, "text/plain", 1, RemoteId(1), "processed", JsNull))
             @@ (2 :> FileRow(2, 2, <<"b", ".", "txt">>, "text/plain", 1, RemoteId(2), "processed", JsNull))
  /\ ids = [project |-> 2, chat |-> 2, message |-> 4, file |-> 2, request |-> 0]
  /\ req = [r \in Reqs |-> IdleReq]
  /\ resp = NoResponse
  /\ client = PageLoad(EmptyStorage)

\* user A with a project, a chat with one exchange and a processed file; user B
\* has registered and owns nothing yet
InitCrud ==
  /\ env = [openai |-> TRUE, openrouter |-> TRUE]
  /\ onDelete = "Cascade"
  /\ projects = (1 :> ProjectRow(1, "A", <<"bot">>, JsNull, <<"p">>))
  /\ chats = (1 :> ChatRow(1, 1, DefaultTitle))
  /\ messages = [i \in 1 .. 2 |-> [PriorMessages(0)[i] EXCEPT !.chatId = 1]]
  /\ files = (1 :> FileRow(1, 1, <<"a", ".", "txt">>, "text/plain", 1, RemoteId(1), "processed", JsNull))
  /\ ids = [project |-> 1, chat |-> 1, message |-> 2, file |-> 1, request |-> 0]
  /\ req = [r \in Reqs |-> IdleReq]
  /\ resp = NoResponse
  /\ client = PageLoad(EmptyStorage)

NextCrud ==
  \E user \in Users :
    \/ \E body \in Bodies :
         CreateProject(user, body.name, body.description, body.systemPrompt)
    \/ \E id \in ProjectIds, body \in Bodies :
         UpdateProject(user, id, body.name, body.description, body.systemPrompt)
    \/ \E id \in ProjectIds : DeleteProject(user, id)
    \/ \E id \in ProjectIds, title \in Titles : CreateChat(user, id, title)

SpecCrud == InitCrud /\ [][NextCrud]_vars

InitFiles ==
  /\ env \in [openai : BOOLEAN, openrouter : {FALSE}]
  /\ onDelete = "Cascade"
  /\ SeededDb

\* one upload (slot 1) and one delete (slot 2) at a time, their steps interleaved
NextFiles ==
  \/ \E user \in Users, id \in ProjectIds, batch \in Batches :
       UploadRequest(1, user, id, batch)
  \/ CreateFileRecord(1)
  \/ StageFile(1)
  \/ UploadRespond(1)
  \/ \E user \in Users, id \in FileIdInputs : DeleteFileRequest(2, user, id)
  \/ RemoteDelete(2)
  \/ DeleteRow(2)

SpecFiles == InitFiles /\ [][NextFiles]_vars

\* ------------------------------------------ specification: upload, any write
\* one upload at a time, whose database writes may throw
NextUpload ==
  \/ \E user \in Users, id \in ProjectIds, batch \in Batches :
       UploadRequest(1, user, id, batch)
  \/ CreateFileRecordWith(1, BOOLEAN)
  \/ StageFileWith(1, BOOLEAN)
  \/ UploadRespond(1)

SpecUpload == InitFiles /\ [][NextUpload]_vars

\* ------------------------------------- specification: concurrent sending
\* the handler awaits at every database and backend call, so the steps of
\* requests in flight together interleave freely; chat 1 starts one message
\* short of a full window
InitConcurrent ==
  /\ env = [openai |-> TRUE, openrouter |-> FALSE]
  /\ onDelete = "Cascade"
  /\ projects = (1 :> ProjectRow(1, "A", <<"bot">>, JsNull, <<"p">>))
                @@ (2 :> ProjectRow(2, "B", <<"bot">>, JsNull, <<"p">>))
  /\ chats = (1 :> ChatRow(1, 1, DefaultTitle)) @@ (2 :> ChatRow(2, 2, DefaultTitle))
  /\ messages = PriorMessages(WindowSize - 1)
  /\ files = (1 :> FileRow(1, 1, <<"a", ".", "txt">>, "text/plain", 1, RemoteId(1), "processed", JsNull))
             @@ (2 :> FileRow(2, 2, <<"b", ".", "txt">>, "text/plain", 1, RemoteId(2), "processed", JsNull))
  /\ ids = [project |-> 2, chat |-> 2, message |-> Len(messages), file |-> 2,
            request |-> 0]
  /\ req = [r \in Reqs |-> IdleReq]
  /\ resp = NoResponse
  /\ client = PageLoad(EmptyStorage)

NextConcurrent ==
  \E r \in Reqs :
    \/ SendMessage(r)
    \/ LookupChat(r)
    \/ SaveUserMessage(r)
    \/ LookupFileContext(r)
    \/ AttemptService(r)
    \/ AllServicesFailed(r)
    \/ ResumeAfterAI(r)
    \/ SaveAssistantMessage(r)

SpecConcurrent == InitConcurrent /\ [][NextConcurrent]_vars

\* ------------------------------ specification: project create and update
\* bodies with every combination of an absent, null, empty or filled name and
\* an absent, empty or filled system prompt
ProjectBodies ==
  [name : {Undefined, JsNull, Str(<< >>), Str(<<"n">>)},
   description : {Undefined, Str(<<"d">>)},
   systemPrompt : {Undefined, Str(<< >>), Str(<<"q">>)}]

NextProjects ==
  \E user \in Users, body \in ProjectBodies :
    \/ CreateProject(user, body.name, body.description, body.systemPrompt)
    \/ \E id \in ProjectIds :
         UpdateProject(user, id, body.name, body.description, body.systemPrompt)

SpecProjects == InitCrud /\ [][NextProjects]_vars

\* ------------------------------- specification: the Message table over time
\* the requests that touch Message rows, handled one at a time: sends, and
\* project deletions between them
\* chat.js 154-192: GET /chats/:chatId/messages, answered in one step
ListMessages(user, chatId) ==
  /\ Respond("listMessages", user, chatId, ListMessagesResponse(user, chatId))
  /\ UNCHANGED <<client, env, onDelete, projects, chats, messages, files, ids, req>>

NextMessages ==
  \/ NextSend
  \/ /\ req[1].pc \in {"idle", "done"}
     /\ \/ \E user \in Users, id \in ProjectIds : DeleteProject(user, id)
        \/ \E chatId \in DOMAIN chats : ListMessages("A", chatId)

\* the database of InitCrud with one backend configured
InitMessages ==
  /\ env = [openai |-> TRUE, openrouter |-> FALSE]
  /\ onDelete \in {"Cascade", "Restrict", "NoAction"}
  /\ projects = (1 :> ProjectRow(1, "A", <<"bot">>, JsNull, <<"p">>))
  /\ chats = (1 :> ChatRow(1, 1, DefaultTitle))
  /\ messages = [i \in 1 .. 2 |-> [PriorMessages(0)[i] EXCEPT !.chatId = 1]]
  /\ files = (1 :> FileRow(1, 1, <<"a", ".", "txt">>, "text/plain", 1, RemoteId(1), "processed", JsNull))
  /\ ids = [project |-> 1, chat |-> 1, message |-> 2, file |-> 1, request |-> 0]
  /\ req = [r \in Reqs |-> IdleReq]
  /\ resp = NoResponse
  /\ client = PageLoad(EmptyStorage)

SpecMessages == InitMessages /\ [][NextMessages]_vars

\* --------------------------------- specification: deleting under each mode
\* project and chat creation and project deletion, from the database of
\* InitMessages under each referential action of the project relations
NextDelete ==
  \E user \in Users :
    \/ \E body \in Bodies :
         CreateProject(user, body.name, body.description, body.systemPrompt)
    \/ \E id \in ProjectIds : DeleteProject(user, id)
    \/ \E id \in ProjectIds, title \in Titles : CreateChat(user, id, title)

SpecDelete == InitMessages /\ [][NextDelete]_vars

\* ------------------------------------------------------------ the client
\* src/lib/api.ts, src/contexts/AuthContext.tsx and the upload component of
\* src/components/dashboard/Dashboard.tsx. The server is seen from outside: it
\* answers a call with a status.
MaxUploads == 2

TokenOf == ("A" :> "tokenA") @@ ("B" :> "tokenB")

UserOf(token) == CHOOSE u \in Users : TokenOf[u] = token

\* answers to a call that carries a token, and to login / register
Statuses == {200, 401, 404, 500}

\* api.ts 42-177: the calls made through the axios instance once signed in
ApiOps ==
  {"getProjects", "createProject", "getProject", "updateProject", "deleteProject",
   "createChat", "getChatMessages", "sendMessage",
   "getProjectFiles", "deleteFile", "getFileContent"}

\* api.ts 13-25: the request interceptor attaches the stored token, if any
ApiCall(op, user, storage) ==
  [via |-> "api", op |-> op, user |-> user, authorization |-> storage.auth_token,
   pc |-> "sent", status |-> 0]

\* Dashboard.tsx 287-293: fetch with the Authorization header read from storage
FetchCall(storage) ==
  [via |-> "fetch", op |-> "upload", user |-> NoItem,
   authorization |-> storage.auth_token, pc |-> "sent", status |-> 0]

\* SET_USER stores the user and the token but leaves isAuthenticated as it is
SetUser_FlagUntouched(user, token) ==
  [user |-> user, token |-> token, isAuthenticated |-> FALSE, isLoading |-> FALSE]

\* AuthContext.tsx 22-29: SET_USER
SetUser(user, token) ==
  [user |-> user, token |-> token, isAuthenticated |-> TRUE, isLoading |-> FALSE]

\* localStorage.removeItem of both keys
RemoveSession(storage) == [storage EXCEPT !.auth_token = NoItem, !.user_data = NoItem]

\* AuthContext.tsx 52-74: the mount effect
initializeAuth ==
  /\ client.pc = "mount"
  /\ LET token == client.storage.auth_token
     IN  client' =
           IF token # NoItem
           THEN [client EXCEPT !.pc = "ready",
                               !.call = ApiCall("getCurrentUser", UserOf(token), client.storage)]
           ELSE [client EXCEPT !.pc = "ready", !.auth.isLoading = FALSE]
  /\ UNCHANGED <<env, onDelete, projects, chats, messages, files, ids, req, resp>>

\* AuthContext.tsx 76-108: login and register, up to the await
login(op, user) ==
  /\ client.pc = "ready"
  /\ client.call = NoCall
  /\ ~client.auth.isAuthenticated
  /\ ~client.auth.isLoading
  /\ client' = [client EXCEPT !.auth.isLoading = TRUE,
                              !.call = ApiCall(op, user, client.storage)]
  /\ UNCHANGED <<env, onDelete, projects, chats, messages, files, ids, req, resp>>

\* AuthContext.tsx 110-114
logout ==
  /\ client.pc = "ready"
  /\ client.auth.isAuthenticated
  /\ client' = [client EXCEPT !.storage = RemoveSession(@),
                              !.auth = [initialState EXCEPT !.isLoading = FALSE]]
  /\ UNCHANGED <<env, onDelete, projects, chats, messages, files, ids, req, resp>>

\* a component calls one of the API functions of api.ts
ApiRequest(op) ==
  /\ client.pc = "ready"
  /\ client.call = NoCall
  /\ client.auth.isAuthenticated
  /\ client' = [client EXCEPT !.call = ApiCall(op, client.auth.user, client.storage)]
  /\ UNCHANGED <<env, onDelete, projects, chats, messages, files, ids, req, resp>>

\* Dashboard.tsx 258-267
addFiles ==
  /\ client.pc = "ready"
  /\ client.auth.isAuthenticated
  /\ Len(client.files) < MaxUploads
  /\ client' = [client EXCEPT !.files = Append(@, "pending")]
  /\ UNCHANGED <<env, onDelete, projects, chats, messages, files, ids, req, resp>>

\* Dashboard.tsx 269-271
removeFile(i) ==
  /\ client.pc = "ready"
  /\ client.auth.isAuthenticated
  /\ i \in 1 .. Len(client.files)
  /\ client' = [client EXCEPT
                  !.files = SubSeq(@, 1, i - 1) \o SubSeq(@, i + 1, Len(@))]
  /\ UNCHANGED <<env, onDelete, projects, chats, messages, files, ids, req, resp>>

\* Dashboard.tsx 273-293: uploadFiles up to the await of fetch
uploadFiles ==
  /\ client.pc = "ready"
  /\ client.auth.isAuthenticated
  /\ client.call = NoCall
  /\ client.files # << >>
  /\ client' = [client EXCEPT !.isUploading = TRUE,
                              !.files = [i \in 1 .. Len(@) |-> "uploading"],
                              !.call = FetchCall(client.storage)]
  /\ UNCHANGED <<env, onDelete, projects, chats, messages, files, ids, req, resp>>

\* the server answers the call in flight
ServerAnswers(status) ==
  /\ client.call # NoCall
  /\ client.call.pc = "sent"
  /\ client' = [client EXCEPT !.call.pc = "answered", !.call.status = status]
  /\ UNCHANGED <<env, onDelete, projects, chats, messages, files, ids, req, resp>>

\* what the awaiting caller does with the outcome of an axios call that was
\* not answered 401
AfterApiCall(c) ==
  LET call == c.call
      ok == call.status = 200
  IN  CASE call.op = "getCurrentUser" ->
             \* AuthContext.tsx 60-67
             IF ok
             THEN [c EXCEPT !.call = NoCall, !.auth = SetUser(call.user, call.authorization)]
             ELSE [c EXCEPT !.call = NoCall, !.storage = RemoveSession(@),
                            !.auth.isLoading = FALSE]
        [] call.op \in {"login", "register"} ->
             \* AuthContext.tsx 80-90, 97-107
             IF ok
             THEN [c EXCEPT !.call = NoCall,
                            !.storage = [auth_token |-> TokenOf[call.user],
                                         user_data |-> call.user],
                            !.auth = SetUser(call.user, TokenOf[call.user])]
             ELSE [c EXCEPT !.call = NoCall, !.auth.isLoading = FALSE]
        [] OTHER -> [c EXCEPT !.call = NoCall]

\* api.ts 27-39: the response interceptor, then the caller; on 401 both keys
\* are removed and the page is reloaded
ApiResponse ==
  /\ client.call.via = "api"
  /\ client.call.pc = "answered"
  /\ client' = IF client.call.status = 401
               THEN PageLoad(RemoveSession(client.storage))
               ELSE AfterApiCall(client)
  /\ UNCHANGED <<env, onDelete, projects, chats, messages, files, ids, req, resp>>

\* Dashboard.tsx 295-324: the outcome of the upload; only result.success is
\* looked at (true exactly on a 2xx answer), never the status
FetchResponse ==
  /\ client.call.via = "fetch"
  /\ client.call.pc = "answered"
  /\ LET success == client.call.status = 200
     IN  client' = [client EXCEPT
                      !.call = NoCall,
                      !.isUploading = FALSE,
                      !.files = [i \in 1 .. Len(@) |->
                                   IF success THEN "success" ELSE "error"]]
  /\ UNCHANGED <<env, onDelete, projects, chats, messages, files, ids, req, resp>>

\* Dashboard.tsx 302-305: the timer set after a successful upload
UploadComplete ==
  /\ client.pc = "ready"
  /\ client.files # << >>
  /\ \A i \in 1 .. Len(client.files) : client.files[i] = "success"
  /\ client' = [client EXCEPT !.files = << >>]
  /\ UNCHANGED <<env, onDelete, projects, chats, messages, files, ids, req, resp>>

InitClient ==
  /\ env = [openai |-> TRUE, openrouter |-> TRUE]
  /\ onDelete = "Cascade"
  /\ projects = << >>
  /\ chats = << >>
  /\ messages = << >>
  /\ files = << >>
  /\ ids = [project |-> 0, chat |-> 0, message |-> 0, file |-> 0, request |-> 0]
  /\ req = [r \in Reqs |-> IdleReq]
  /\ resp = NoResponse
  /\ \E storage \in {EmptyStorage} \cup
                    {[auth_token |-> TokenOf[u], user_data |-> u] : u \in Users} :
       client = PageLoad(storage)

NextClient ==
  \/ initializeAuth
  \/ \E op \in {"login", "register"}, user \in Users : login(op, user)
  \/ logout
  \/ \E op \in ApiOps : ApiRequest(op)
  \/ addFiles
  \/ \E i \in 1 .. MaxUploads : removeFile(i)
  \/ uploadFiles
  \/ \E status \in Statuses : ServerAnswers(status)
  \/ ApiResponse
  \/ FetchResponse
  \/ UploadComplete

SpecClient == InitClient /\ [][NextClient]_vars

\* ------------------------------------------------------- the chat screen
\* ChatInterface (src/unnamed/part_001) of user A over project 1, with
\* chatAPI of src/lib/api.ts, against the send handler of routes/chat.js.
\* In this specification `client` holds the state of the chat screen.

\* the rows of the file list that can be selected for the chat: A's processed
\* file and a file whose remote staging gave no reference id
Selections ==
  {<< >>,
   <<[originalName |-> <<"a", ".", "txt">>, openaiFileId |-> RemoteId(1)]>>,
   <<[originalName |-> <<"a", ".", "txt">>, openaiFileId |-> RemoteId(1)],
     [originalName |-> <<"c", ".", "txt">>, openaiFileId |-> NoRemoteId]>>}

\* part_001 17-21: the state of a mounted ChatInterface (0: no chat yet)
ChatScreen(selectedFiles) ==
  [selectedFiles |-> selectedFiles, currentChat |-> 0, messages |-> << >>,
   inputMessage |-> << >>, isLoading |-> FALSE, error |-> NoItem,
   calls |-> << >>, pc |-> "mount"]

\* part_001 77: selectedFiles.map(f => f.openaiFileId).filter(Boolean)
RECURSIVE SelectedIds(_)
SelectedIds(selectedFiles) ==
  IF selectedFiles = << >> THEN << >>
  ELSE (IF Head(selectedFiles).openaiFileId # NoRemoteId
        THEN <<Head(selectedFiles).openaiFileId>> ELSE << >>)
       \o SelectedIds(Tail(selectedFiles))

\* api.ts 115-126: chatAPI.sendMessage(chatId, content) posts { content }; a
\* third argument of a call has no parameter to bind to
ChatApiSendMessage(chatId, content, fileIds) ==
  [chatId |-> chatId, body |-> [content |-> Str(content)]]

\* chat.js 198: const { content, fileIds } = req.body (no ids: << >>)
BodyFileIds(body) == IF "fileIds" \in DOMAIN body THEN body.fileIds ELSE << >>

\* the text of the input field
Typed == {<< >>, <<" ">>, <<" ", "a", " ">>}

\* part_001 24-54: the mount effect creates a chat through POST
\* /projects/:projectId/chats (chat.js 112-151) and shows the welcome message
initializeChat ==
  /\ client.pc = "mount"
  /\ ids.chat < MaxChats
  /\ LET response == CreateChatResponse("A", 1, Str(<<"Chat with", "bot">>))
     IN  \E delivered \in BOOLEAN :
           /\ Respond("createChat", "A", 1, response)
           /\ chats' = chats @@ (ids.chat + 1 :> response.data.chat)
           /\ ids' = [ids EXCEPT !.chat = @ + 1]
           /\ client' =
                IF delivered
                THEN [client EXCEPT
                        !.pc = "ready",
                        !.currentChat = response.data.chat.id,
                        !.messages = <<[id |-> 0, chatId |-> response.data.chat.id,
                                        role |-> "assistant", content |-> <<"Hello">>,
                                        timestamp |-> 0]>>]
                ELSE [client EXCEPT
                        !.pc = "ready", !.error = "Failed to initialize chat"]
  /\ UNCHANGED <<env, onDelete, projects, messages, files, req>>

\* part_001 215: onChange of the input (disabled while loading)
setInputMessage(text) ==
  /\ client.pc = "ready"
  /\ ~client.isLoading
  /\ client.inputMessage # text
  /\ client' = [client EXCEPT !.inputMessage = text]
  /\ UNCHANGED <<env, onDelete, projects, chats, messages, files, ids, req, resp>>

\* the handler slots no pending call of the screen is bound to
FreeSlots ==
  {r \in Reqs : req[r].pc \in {"idle", "done"}
                /\ \A i \in 1 .. Len(client.calls) : client.calls[i].slot # r}

\* a form that can be submitted again while a send is loading: no guard on
\* isLoading, and the text stays in the field
handleSendMessage_Resubmit ==
  /\ client.pc = "ready"
  /\ Trim(client.inputMessage) # << >>
  /\ client.currentChat # 0
  /\ ids.request + Len(client.calls) < MaxSends
  /\ \E slot \in FreeSlots :
       LET messageContent == Trim(client.inputMessage)
           request == ChatApiSendMessage(client.currentChat, messageContent,
                                         SelectedIds(client.selectedFiles))
       IN  client' = [client EXCEPT
                        !.isLoading = TRUE,
                        !.error = NoItem,
                        !.calls = Append(@, [slot |-> slot, entered |-> FALSE,
                                             chatId |-> request.chatId,
                                             body |-> request.body,
                                             typed |-> client.inputMessage,
                                             messageContent |-> messageContent])]
  /\ UNCHANGED <<env, onDelete, projects, chats, messages, files, ids, req, resp>>

\* part_001 64-80: the form is submitted; up to the await of chatAPI.sendMessage
\* (a submit that the guard of line 67 turns away changes nothing); a pending
\* call remembers the text the field held (typed) next to messageContent
handleSendMessage ==
  /\ client.pc = "ready"
  /\ ~(Trim(client.inputMessage) = << >> \/ client.currentChat = 0 \/ client.isLoading)
  /\ ids.request + Len(client.calls) < MaxSends
  /\ \E slot \in FreeSlots :
       LET messageContent == Trim(client.inputMessage)
           request == ChatApiSendMessage(client.currentChat, messageContent,
                                         SelectedIds(client.selectedFiles))
       IN  client' = [client EXCEPT
                        !.inputMessage = << >>,
                        !.isLoading = TRUE,
                        !.error = NoItem,
                        !.calls = Append(@, [slot |-> slot, entered |-> FALSE,
                                             chatId |-> request.chatId,
                                             body |-> request.body,
                                             typed |-> client.inputMessage,
                                             messageContent |-> messageContent])]
  /\ UNCHANGED <<env, onDelete, projects, chats, messages, files, ids, req, resp>>

\* the request of pending call i reaches the server: the handler is entered
\* with the body's content (chat.js 195-205)
RequestArrives(i) ==
  /\ i \in 1 .. Len(client.calls)
  /\ ~client.calls[i].entered
  /\ LET call == client.calls[i]
         rejection == ValidateContent(call.body.content)
         q == [IdleReq EXCEPT !.content = call.body.content]
     IN  /\ req[call.slot].pc \in {"idle", "done"}
         /\ Set(call.slot, IF rejection # NULL
                           THEN [q EXCEPT !.pc = "done", !.response = rejection]
                           ELSE [q EXCEPT !.pc = "findChat"])
         /\ ids' = [ids EXCEPT !.request = @ + 1]
         /\ client' = [client EXCEPT !.calls[i].entered = TRUE]
  /\ UNCHANGED <<env, onDelete, projects, chats, messages, files, resp>>

\* what a backend does with a request of the screen: a reply with content, a
\* reply without content, no reply in time
ScreenOutcomes == {"ok", "noContent", "timeout"}

\* a step of handler invocation r on a request of the screen: the user is A,
\* the chat id is the one of the URL and the file ids are those of the body;
\* the backend's outcome is one of ScreenOutcomes and the fallback text is the
\* first template
ServerStep(r) ==
  /\ HandlerStep(r)
  /\ Len(req'[r].attempts) > Len(req[r].attempts) =>
       req'[r].attempts[Len(req'[r].attempts)].outcome \in ScreenOutcomes
  /\ req[r].pc = "aiThrown" => req'[r].aiResult = FallbackResult(1, req[r])
  /\ req[r].pc = "findChat" =>
       req'[r].user = "A" /\ req'[r].chatId = client.currentChat
  /\ req[r].pc = "saveUser" =>
       req'[r].fileIds =
         BodyFileIds(ChatApiSendMessage(client.currentChat, req[r].content.s,
                                        SelectedIds(client.selectedFiles)).body)

\* part_001 80-97 after the await: the response of pending call i arrives
\* (axios rejects on a status outside 2xx)
SendSettled(i) ==
  /\ i \in 1 .. Len(client.calls)
  /\ client.calls[i].entered
  /\ req[client.calls[i].slot].pc = "done"
  /\ LET call == client.calls[i]
         response == req[call.slot].response
         rest == SubSeq(client.calls, 1, i - 1)
                 \o SubSeq(client.calls, i + 1, Len(client.calls))
     IN  client' =
           IF response.status = 200
           THEN [client EXCEPT
                   !.calls = rest, !.isLoading = FALSE,
                   !.messages = @ \o <<response.data.userMessage,
                                       response.data.assistantMessage>>]
           ELSE [client EXCEPT
                   !.calls = rest, !.isLoading = FALSE,
                   !.error = "Failed to send message",
                   !.inputMessage = call.messageContent]
  /\ UNCHANGED <<env, onDelete, projects, chats, messages, files, ids, req, resp>>

\* api.ts 7: the 30 s timeout of the axios instance fires for pending call i,
\* wherever the request or the handler is; the catch of part_001 88-94 runs
SendTimedOut(i) ==
  /\ i \in 1 .. Len(client.calls)
  /\ LET call == client.calls[i]
         rest == SubSeq(client.calls, 1, i - 1)
                 \o SubSeq(client.calls, i + 1, Len(client.calls))
     IN  client' = [client EXCEPT
                      !.calls = rest, !.isLoading = FALSE,
                      !.error = "Failed to send message",
                      !.inputMessage = call.messageContent]
  /\ UNCHANGED <<env, onDelete, projects, chats, messages, files, ids, req, resp>>

InitChatScreen ==
  /\ env = [openai |-> TRUE, openrouter |-> FALSE]
  /\ onDelete = "Cascade"
  /\ projects = (1 :> ProjectRow(1, "A", <<"bot">>, JsNull, <<"p">>))
  /\ chats = (1 :> ChatRow(1, 1, DefaultTitle))
  /\ messages = [i \in 1 .. 2 |-> [PriorMessages(0)[i] EXCEPT !.chatId = 1]]
  /\ files = (1 :> FileRow(1, 1, <<"a", ".", "txt">>, "text/plain", 1, RemoteId(1), "processed", JsNull))
  /\ ids = [project |-> 1, chat |-> 1, message |-> 2, file |-> 1, request |-> 0]
  /\ req = [r \in Reqs |-> IdleReq]
  /\ resp = NoResponse
  /\ \E selectedFiles \in Selections : client = ChatScreen(selectedFiles)

NextChatScreen ==
  \/ initializeChat
  \/ \E text \in Typed : setInputMessage(text)
  \/ handleSendMessage
  \/ \E i \in 1 .. MaxSends : RequestArrives(i)
  \/ \E r \in Reqs : ServerStep(r)
  \/ \E i \in 1 .. MaxSends : SendSettled(i)
  \/ \E i \in 1 .. MaxSends : SendTimedOut(i)

SpecChatScreen == InitChatScreen /\ [][NextChatScreen]_vars

\* ---------------------------------------------------- the settings tab
\* ProjectDetail (src/unnamed/part_000) as AppContent renders it (App.tsx
\* 58-64) for project 1 of user A.  In this specification `client` holds the
\* state of the settings tab.

\* value || '' of a stored text column
OrEmpty(v) == IF Truthy(v) THEN v.s ELSE << >>

\* part_000 35-40: the state of a mounted ProjectDetail
SettingsTab(project) ==
  [pc |-> "settings", isUpdating |-> FALSE, alert |-> NoItem,
   formData |-> [name |-> project.name,
                 description |-> OrEmpty(project.description),
                 systemPrompt |-> project.systemPrompt],
   updates |-> NULL, awaited |-> FALSE]

\* what can be typed into the three fields
FormTexts ==
  [name |-> {<< >>, <<"bot">>, <<"n">>},
   description |-> {<< >>, <<"d">>},
   systemPrompt |-> {<< >>, <<"p">>, <<"q">>}]

\* part_000 205-247: onChange of a field of the form
setFormData(field, text) ==
  /\ client.pc = "settings"
  /\ client.formData[field] # text
  /\ client' = [client EXCEPT !.formData[field] = text]
  /\ UNCHANGED <<env, onDelete, projects, chats, messages, files, ids, req, resp>>

\* App.tsx 24-31: AppContent.handleUpdateProject logs its arguments; no request
\* is sent, the database stays as it is and the promise resolves
AppHandleUpdateProject(projectId, updates) == UNCHANGED projects

\* part_000 46-53 and 254-258: Save Changes is clicked (the button is disabled
\* while updating and while the name or the system prompt is blank); the
\* updates are handed to onUpdateProject
handleUpdateProject ==
  /\ client.pc = "settings"
  /\ ~(client.isUpdating \/ Trim(client.formData.name) = << >>
         \/ Trim(client.formData.systemPrompt) = << >>)
  /\ LET updates == [name |-> Str(client.formData.name),
                     description |-> IF client.formData.description # << >>
                                     THEN Str(client.formData.description)
                                     ELSE Undefined,
                     systemPrompt |-> Str(client.formData.systemPrompt)]
     IN  /\ AppHandleUpdateProject(1, updates)
         /\ client' = [client EXCEPT !.isUpdating = TRUE, !.alert = NoItem,
                                     !.updates = updates, !.awaited = TRUE]
  /\ UNCHANGED <<env, onDelete, chats, messages, files, ids, req, resp>>

\* part_000 54-59: the awaited promise has resolved
UpdateResolved ==
  /\ client.pc = "settings"
  /\ client.awaited
  /\ client' = [client EXCEPT !.awaited = FALSE, !.isUpdating = FALSE,
                              !.alert = "Project updated successfully!"]
  /\ UNCHANGED <<env, onDelete, projects, chats, messages, files, ids, req, resp>>

InitSettings ==
  /\ env = [openai |-> TRUE, openrouter |-> TRUE]
  /\ onDelete = "Cascade"
  /\ projects = (1 :> ProjectRow(1, "A", <<"bot">>, JsNull, <<"p">>))
  /\ chats = (1 :> ChatRow(1, 1, DefaultTitle))
  /\ messages = [i \in 1 .. 2 |-> [PriorMessages(0)[i] EXCEPT !.chatId = 1]]
  /\ files = (1 :> FileRow(1, 1, <<"a", ".", "txt">>, "text/plain", 1, RemoteId(1), "processed", JsNull))
  /\ ids = [project |-> 1, chat |-> 1, message |-> 2, file |-> 1, request |-> 0]
  /\ req = [r \in Reqs |-> IdleReq]
  /\ resp = NoResponse
  /\ client = SettingsTab(projects[1])

NextSettings ==
  \/ \E field \in DOMAIN FormTexts : \E text \in FormTexts[field] : setFormData(field, text)
  \/ handleUpdateProject
  \/ UpdateResolved

SpecSettings == InitSettings /\ [][NextSettings]_vars

\* ================================================================ claims
\* a finished send-message request whose content passed validation and whose
\* chat was found for the requesting user
ValidSendDone(r) ==
  /\ req[r].pc = "done"
  /\ req[r].content.t = "string"
  /\ Trim(req[r].content.s) # << >>
  /\ req[r].chat # NULL

\* the Message rows written since the chat lookup of request r
AddedSince(r) == SubSeq(messages, Len(req[r].before) + 1, Len(messages))

\* the failures the specification lists for a backend attempt: timeout, HTTP
\* error, malformed response (a 2xx body without choices[0].message, or one
\* whose message carries no content)
ListedFailure(outcome) == outcome \in {"timeout", "httpError", "noChoices", "noContent"}

\* C1: every send-message request with non-empty trimmed content on a chat of
\* the requesting user adds exactly one user-role and one assistant-role message
\* to that chat, the user-role one first, whatever the backends answered.
C1_ExactlyOnePairAdded ==
  \A r \in Reqs :
    ValidSendDone(r) =>
      LET added == AddedSince(r)
      IN  /\ SubSeq(messages, 1, Len(req[r].before)) = req[r].before
          /\ Len(added) = 2
          /\ added[1].role = "user" /\ added[1].chatId = req[r].chatId
          /\ added[2].role = "assistant" /\ added[2].chatId = req[r].chatId
          /\ added[1].timestamp < added[2].timestamp

\* every configured backend was attempted by request r and every attempt failed
\* in one of the listed ways (also when no backend is configured)
EveryBackendFailed(r) ==
  /\ Len(req[r].attempts) = Len(req[r].services)
  /\ \A i \in 1 .. Len(req[r].attempts) : ListedFailure(req[r].attempts[i].outcome)

\* every attempted call of request r threw: a timeout, an HTTP error, or a body
\* without choices[0].message
EveryBackendThrew(r) ==
  /\ Len(req[r].attempts) = Len(req[r].services)
  /\ \A i \in 1 .. Len(req[r].attempts) : Throws(req[r].attempts[i].outcome)

\* C2: when every configured backend fails during a send, or none is
\* configured, the request is answered 200 with a non-empty assistant message
\* and the metadata names the fallback (the label the handler gives it).
C2_FallbackOnTotalFailure ==
  \A r \in Reqs :
    (ValidSendDone(r) /\ EveryBackendFailed(r)) =>
      /\ req[r].response.status = 200
      /\ req[r].response.data.assistantMessage.content # << >>
      /\ req[r].response.data.metadata.service = FallbackLabel

\* the part of C2 that the handler keeps: when every attempted call threw, the
\* answer is 200 with the stored canned reply and {service: "Fallback Mode",
\* usage: null}
FallbackWhenEveryCallThrew ==
  \A r \in Reqs :
    (ValidSendDone(r) /\ EveryBackendThrew(r)) =>
      /\ req[r].response.status = 200
      /\ req[r].response.success
      /\ req[r].response.data.assistantMessage.content # << >>
      /\ req[r].response.data.assistantMessage.role = "assistant"
      /\ req[r].response.data.assistantMessage \in Range(messages)
      /\ req[r].response.data.metadata = [service |-> FallbackLabel, usage |-> NULL]

\* C3: in one send the user-message write precedes every backend attempt, every
\* backend attempt precedes the assistant-message write, and the user message,
\* once written, stays in the chat.
C3_WriteAttemptWriteOrder ==
  [][\A r \in Reqs :
       /\ Len(req'[r].attempts) > Len(req[r].attempts) =>
            /\ req[r].userMessage # NULL
            /\ req[r].userMessage \in ChatMessages(req[r].chatId)
            /\ req[r].assistantMessage = NULL
            /\ \A m \in ChatMessages(req[r].chatId) :
                 m.id > req[r].userMessage.id => m.role # "assistant"
       /\ (req[r].assistantMessage = NULL /\ req'[r].assistantMessage # NULL) =>
            /\ req'[r].attempts = req[r].attempts
            /\ req'[r].pc = "done"
            /\ req[r].userMessage.id < req'[r].assistantMessage.id
       /\ req[r].userMessage # NULL =>
            req[r].userMessage \in {m \in Range(messages') : m.chatId = req[r].chatId}
    ]_vars

C3_Witness ==
  \E r \in Reqs :
    /\ req[r].pc = "done"
    /\ Len(req[r].attempts) = 2
    /\ req[r].userMessage # NULL
    /\ req[r].assistantMessage # NULL

\* C4: when the preferred hint names a backend whose key is configured, that
\* backend is attempted first and any other backend only after it failed; with
\* no usable hint the configured backends are attempted OpenAI first, then
\* OpenRouter.
KeySet(service) == IF service = OPENAI THEN env.openai ELSE env.openrouter

C4_PreferredFirstThenFixedOrder ==
  \A r \in Reqs :
    LET a == req[r].attempts
        usable == req[r].preferred \in {OPENAI, OPENROUTER} /\ KeySet(req[r].preferred)
    IN  \A i \in 1 .. Len(a) :
          IF usable
          THEN /\ a[i].service = req[r].preferred <=> i = 1
               /\ i > 1 => Throws(a[1].outcome)
          ELSE /\ a[i].service = OPENAI => i = 1
               /\ a[i].service = OPENROUTER =>
                    IF env.openai
                    THEN i = 2 /\ a[1].service = OPENAI /\ Throws(a[1].outcome)
                    ELSE i = 1

C4_Witness ==
  \E r \in Reqs :
    /\ req[r].preferred = OPENROUTER
    /\ env.openai /\ env.openrouter
    /\ Len(req[r].attempts) = 2
    /\ req[r].attempts[1].service = OPENROUTER
    /\ req[r].attempts[2].service = OPENAI

\* C5: a backend whose key is not configured is never attempted, also when the
\* preferred hint names it.
C5_UnconfiguredNeverAttempted ==
  \A r \in Reqs :
    \A i \in 1 .. Len(req[r].attempts) : KeySet(req[r].attempts[i].service)

C5_Witness ==
  \E r \in Reqs :
    /\ req[r].preferred = OPENAI
    /\ ~env.openai /\ env.openrouter
    /\ req[r].pc = "aiThrown"
    /\ Len(req[r].attempts) = 1

\* C6: each backend is attempted at most once per send, an attempt that fails
\* (timeout, HTTP error, malformed response) moves the loop on to the next
\* backend, and the first successful attempt ends the loop.
C6_FailMovesOnSuccessStops ==
  \A r \in Reqs :
    LET a == req[r].attempts
    IN  /\ \A i, j \in 1 .. Len(a) : a[i].service = a[j].service => i = j
        /\ \A i \in 1 .. Len(a) :
             IF ListedFailure(a[i].outcome)
             THEN i < Len(a) \/ req[r].idx = i + 1
             ELSE i = Len(a) /\ req[r].pc # "attempt" /\ req[r].idx = i

\* C7: the conversation passed to a backend is the system entry, then the at
\* most ten messages of the chat with the greatest timestamps at lookup time,
\* oldest first, then the new user message.
C7_BoundedWindow ==
  \A r \in Reqs :
    (req[r].chat # NULL /\ req[r].conversation # << >>) =>
      LET conv == req[r].conversation
          inChat == {m \in Range(req[r].before) : m.chatId = req[r].chatId}
          n == Len(conv) - 2
      IN  /\ n >= 0 /\ n <= WindowSize
          /\ n = Min(WindowSize, Cardinality(inChat))
          /\ conv[1].role = "system"
          /\ conv[Len(conv)] = [role |-> "user", content |-> Trim(req[r].content.s)]
          /\ \A i \in 1 .. n :
               \E m \in inChat :
                 /\ Cardinality({o \in inChat : o.timestamp > m.timestamp}) = n - i
                 /\ conv[i + 1] = [role |-> m.role, content |-> m.content]

C7_Witness ==
  \E r \in Reqs :
    /\ req[r].attempts # << >>
    /\ Cardinality({m \in Range(req[r].before) : m.chatId = req[r].chatId}) > WindowSize
    /\ Len(req[r].conversation) = WindowSize + 2

\* the other users' view of the Project rows
Strangers(id) == Users \ {projects[id].userId}

\* what the project handlers answer a user about a project id
C8_NothingShown(user, id) ==
  /\ \A i \in DOMAIN ListProjectsResponse(user).data.projects :
       ListProjectsResponse(user).data.projects[i].project.id # id
  /\ GetProjectResponse(user, id) = Json404("Project not found")
  /\ \A body \in Bodies :
       UpdateProjectResponse(user, id, body.name, body.description, body.systemPrompt)
         = Json404("Project not found")
  /\ DeleteProjectResponse(user, id) = Json404("Project not found")

\* a request of another user leaves the Project row as it was
C8_NothingChanged ==
  \A id \in DOMAIN projects :
    resp'.user \in Strangers(id) => (id \in DOMAIN projects' /\ projects'[id] = projects[id])

\* C8: for every project of a user A and every other user B, B's project list
\* never contains the project, B's get, update and delete on its id answer 404
\* "Project not found" without data, and no request of B changes or removes the
\* project.
C8_ProjectIsolation ==
  /\ [](\A id \in DOMAIN projects : \A user \in Strangers(id) : C8_NothingShown(user, id))
  /\ [][C8_NothingChanged]_vars

C8_Witness ==
  /\ resp.handler \in {"updateProject", "deleteProject"}
  /\ resp.user = "B"
  /\ resp.id \in DOMAIN projects
  /\ projects[resp.id].userId = "A"
  /\ resp.response.status = 404
  /\ \E id \in DOMAIN projects : projects[id].userId = "B"

\* the answers of the nine resource-scoped handlers to one user: for a project
\* id, a chat id and a file id
ProjectScoped(user, id) ==
  [get |-> GetProjectResponse(user, id),
   update |-> [body \in Bodies |->
                 UpdateProjectResponse(user, id, body.name, body.description,
                                       body.systemPrompt)],
   delete |-> DeleteProjectResponse(user, id),
   createChat |-> [title \in Titles |-> CreateChatResponse(user, id, title)],
   listFiles |-> ListFilesResponse(user, id)]

ChatScoped(user, id) ==
  [list |-> ListMessagesResponse(user, id),
   send |-> [content \in Contents |->
               IF ValidateContent(content) # NULL THEN ValidateContent(content)
               ELSE SendLookupResponse(user, id)]]

FileScoped(user, id) ==
  [delete |-> DeleteFileResponse(user, id),
   content |-> [remoteOk \in BOOLEAN |-> FileContentResponse(user, id, remoteOk)]]

Is404(response, message) == response = Json404(message)

\* the chats and files that exist and are not the user's
NotOwnChats(user) ==
  {id \in DOMAIN chats : chats[id].projectId \in DOMAIN projects =>
                           projects[chats[id].projectId].userId # user}
NotOwnFiles(user) ==
  {id \in DOMAIN files : files[id].projectId \in DOMAIN projects =>
                           projects[files[id].projectId].userId # user}

\* C9: each resource-scoped handler (project get, update, delete; chat create;
\* message list, send; file list, delete, content) answers a request for an id
\* that does not exist and a request for an id that belongs to another user with
\* the same response, a 404 with the handler's one not-found message.
C9_UniformNotFound ==
  \A user \in Users :
    /\ \A missing \in ProjectIds \ DOMAIN projects :
         /\ Is404(ProjectScoped(user, missing).get, "Project not found")
         /\ Is404(ProjectScoped(user, missing).delete, "Project not found")
         /\ Is404(ProjectScoped(user, missing).listFiles, "Project not found")
         /\ \A body \in Bodies : Is404(ProjectScoped(user, missing).update[body],
                                       "Project not found")
         /\ \A title \in Titles : Is404(ProjectScoped(user, missing).createChat[title],
                                        "Project not found")
         /\ \A foreign \in {id \in DOMAIN projects : projects[id].userId # user} :
              ProjectScoped(user, foreign) = ProjectScoped(user, missing)
    /\ \A missing \in ChatIdInputs \ DOMAIN chats :
         /\ Is404(ChatScoped(user, missing).list, "Chat not found")
         /\ Is404(ChatScoped(user, missing).send[Str(<<" ", "a", " ">>)], "Chat not found")
         /\ \A foreign \in NotOwnChats(user) :
              ChatScoped(user, foreign) = ChatScoped(user, missing)
    /\ \A missing \in FileIdInputs \ DOMAIN files :
         /\ Is404(FileScoped(user, missing).delete, "File not found")
         /\ \A remoteOk \in BOOLEAN :
              Is404(FileScoped(user, missing).content[remoteOk], "File not found")
         /\ \A foreign \in NotOwnFiles(user) :
              FileScoped(user, foreign) = FileScoped(user, missing)

C9_Witness ==
  /\ resp.handler = "deleteProject"
  /\ resp.user = "B"
  /\ resp.id \in DOMAIN projects
  /\ projects[resp.id].userId = "A"
  /\ resp.response = DeleteProjectResponse("B", MaxProjects + 1)
  /\ \E id \in DOMAIN chats : FindChat(id, "A") # NULL
  /\ \E id \in DOMAIN files : FindFile(id, "A") # NULL

\* C10: a send-message request is answered with an error only when the content
\* is absent or empty after trimming, or the chat is not found for the
\* requesting user; every other request is answered with a success.
C10_ErrorsOnlyForEmptyOrNotFound ==
  \A r \in Reqs :
    (req[r].pc = "done" /\ req[r].response.status >= 400) =>
      \/ ~Truthy(req[r].content)
      \/ (req[r].content.t = "string" /\ Trim(req[r].content.s) = << >>)
      \/ (req[r].content.t = "string" /\ FindChat(req[r].chatId, req[r].user) = NULL)

\* C10 for requests whose content is a string: the error then comes from the
\* assistant-message write
C10_StringContent ==
  \A r \in Reqs :
    (req[r].pc = "done" /\ req[r].content.t = "string" /\ req[r].response.status >= 400) =>
      \/ Trim(req[r].content.s) = << >>
      \/ FindChat(req[r].chatId, req[r].user) = NULL

\* the content of request r is absent or empty after trimming
EmptyContent(r) ==
  \/ req[r].content = Undefined
  \/ (req[r].content.t = "string" /\ Trim(req[r].content.s) = << >>)

\* request r wrote no Message row and called no backend
NothingDone(r) ==
  /\ req[r].userMessage = NULL
  /\ req[r].assistantMessage = NULL
  /\ req[r].attempts = << >>

\* C11: a send whose content is empty after trimming is answered 400, one whose
\* chat is not a chat of the requesting user is answered 404; in both cases the
\* request writes no message row and calls no backend.
C11_RejectedSendWritesNothing ==
  /\ [](\A r \in Reqs :
         req[r].pc = "done" =>
           /\ EmptyContent(r) =>
                (req[r].response = Json400("Message content is required") /\ NothingDone(r))
           /\ (req[r].content.t = "string" /\ ~EmptyContent(r)
                  /\ FindChat(req[r].chatId, req[r].user) = NULL) =>
                (req[r].response = Json404("Chat not found") /\ NothingDone(r)))
  /\ [][\A r \in Reqs :
          (req'[r] # req[r] /\ req'[r].pc = "done" /\ req'[r].response.status \in {400, 404})
            => messages' = messages]_vars

C11_Witness ==
  \E r \in Reqs :
    /\ req[r].pc = "done"
    /\ req[r].content = Str(<<" ", "a", " ">>)
    /\ req[r].user = "B" /\ req[r].chatId = 1
    /\ req[r].response.status = 404
    /\ ids.request = MaxSends
    /\ req[r].before # << >>
    /\ messages = req[r].before

\* C12: a File row is created with status uploading, its status changes only
\* from uploading to processed or to error, and every row whose status is
\* processed has an external reference id.
C12_FileStatusTransitions ==
  /\ [](\A id \in DOMAIN files :
         files[id].status = "processed" => files[id].openaiFileId # NoRemoteId)
  /\ [][/\ \A id \in DOMAIN files' \ DOMAIN files : files'[id].status = "uploading"
        /\ \A id \in DOMAIN files \cap DOMAIN files' :
             files'[id].status # files[id].status =>
               /\ files[id].status = "uploading"
               /\ files'[id].status \in {"processed", "error"}]_vars

C12_Witness ==
  /\ \E id \in DOMAIN files : id > 2 /\ files[id].status = "processed"
  /\ \E id \in DOMAIN files : files[id].status = "error"
  /\ 1 \notin DOMAIN files
  /\ req[2].pc = "done"

\* the last remote staging call of upload r
LastStaging(r) == req[r].staging[Len(req[r].staging)]

\* C13: when the remote staging call fails for a file of a batch, the File row
\* created for it stays, with its original name, MIME type and size, status
\* error, an error message and no external reference id; the failed file is
\* reported in the response's files and the loop goes on to the next file.
C13_FailedStagingKeepsRow ==
  [][\A r \in {1} :
       (req[r].pc = "stage" /\ req'[r].pc # "stage"
          /\ ~LastStaging(r)'.ok /\ LastStaging(r)'.present) =>
         LET id == req[r].fileRecord.id
             file == req[r].batch[req[r].i]
         IN  /\ id \in DOMAIN files'
             /\ files'[id].originalName = file.originalname
             /\ files'[id].mimeType = file.mimetype
             /\ files'[id].size = file.size
             /\ files'[id].projectId = req[r].projectId
             /\ files'[id].status = "error"
             /\ files'[id].errorMessage.t = "string"
             /\ files'[id].openaiFileId = NoRemoteId
             /\ \A other \in DOMAIN files \ {id} :
                  other \in DOMAIN files' /\ files'[other] = files[other]
             /\ req'[r].uploadedFiles = Append(req[r].uploadedFiles, files'[id])
             /\ req'[r].errors = req[r].errors
             /\ req[r].i < Len(req[r].batch) => (req'[r].pc = "create" /\ req'[r].i = req[r].i + 1)
    ]_vars

C13_Witness ==
  /\ req[1].pc = "respond"
  /\ Len(req[1].staging) = 2
  /\ ~req[1].staging[1].ok /\ req[1].staging[1].present
  /\ req[1].staging[2].ok
  /\ files[req[1].staging[1].id].status = "error"
  /\ files[req[1].staging[2].id].status = "processed"

\* C14: an upload request with a file whose extension is not among the supported
\* ones never reaches the loop that creates File rows, whatever MIME type the
\* file declares, and no File row bears such a name.
C14_UnsupportedExtensionRejected ==
  /\ \A id \in DOMAIN files : ExtName(files[id].originalName) \in AllowedExtensions
  /\ req[1].pc \in {"create", "stage", "respond"} =>
       \A i \in 1 .. Len(req[1].batch) :
         ExtName(req[1].batch[i].originalname) \in AllowedExtensions

\* the ids of the projects that were created and have been deleted
DeletedProjects == (1 .. ids.project) \ DOMAIN projects

\* C15: once a project that owned chats and files has been deleted, the file
\* list for its id and the message list for each of its chat ids answer 404 to
\* every user, whether the storage layer removed the chats, files and messages
\* with it or left them behind.
C15_NoOrphansListed ==
  \A user \in Users : \A id \in DeletedProjects :
    /\ ListFilesResponse(user, id) = Json404("Project not found")
    /\ \A c \in 1 .. ids.chat :
         (c \notin DOMAIN chats \/ chats[c].projectId = id) =>
           ListMessagesResponse(user, c) = Json404("Chat not found")

C15_Witness ==
  /\ onDelete = "NoAction"
  /\ resp.handler = "deleteProject"
  /\ resp.response.status = 200
  /\ resp.id \in DeletedProjects
  /\ \E c \in DOMAIN chats : chats[c].projectId = resp.id /\ ChatMessages(c) # {}
  /\ \E f \in DOMAIN files : files[f].projectId = resp.id

\* C16: for a file of the requesting user, the remote delete is attempted only
\* when the row has an external reference id and the credential is set, and
\* while the row is still there; whether it succeeds or fails, the handler goes
\* on to remove the row and answers with a success.
C16_RemoteDeleteBestEffort ==
  [][\A r \in {2} :
       /\ (req[r].pc = "remoteDelete" /\ req'[r] # req[r]) =>
            /\ req[r].file.openaiFileId # NoRemoteId
            /\ env.openai
            /\ req[r].fileId \in DOMAIN files
            /\ files' = files
            /\ req'[r].pc = "deleteRow"
       /\ (req[r].pc = "deleteRow" /\ req'[r] # req[r] /\ req[r].fileId \in DOMAIN files) =>
            /\ files' = Without(files, {req[r].fileId})
            /\ req'[r] = Finished("deleteFile", Json200("File deleted successfully", NULL))
    ]_vars

C16_Witness ==
  /\ req[2].pc = "deleteRow"
  /\ req[2].remote # << >>
  /\ ~req[2].remote[1].ok
  /\ req[2].fileId \in DOMAIN files
  /\ files[req[2].fileId].status = "processed"
  /\ req[2].fileId > 2

\* the call in flight was answered 401, carried a token, and is being handled
Handled401 ==
  /\ client.call # NoCall
  /\ client.call.pc = "answered"
  /\ client.call.status = 401
  /\ client.call.authorization # NoItem
  /\ client'.call # client.call

\* C17: whenever a request of the client that carried the token (through the
\* API client or the file upload) is answered 401, the client removes the stored
\* token and user data and reloads into the signed-out state.
C17_UnauthorizedClearsSession ==
  [][Handled401 =>
       /\ client'.storage = EmptyStorage
       /\ ~client'.auth.isAuthenticated
       /\ client'.pc = "mount"]_vars

\* C17 for the calls that go through the axios instance of api.ts
C17_ApiClientCalls ==
  [][(Handled401 /\ client.call.via = "api") =>
       /\ client'.storage = EmptyStorage
       /\ ~client'.auth.isAuthenticated
       /\ client'.pc = "mount"]_vars

\* the chat row and the project it belongs to are both stored
ChatExists(chatId) ==
  chatId \in DOMAIN chats /\ chats[chatId].projectId \in DOMAIN projects

\* the Message rows whose chat row is still stored after the step
KeptMessages ==
  LET remaining == DOMAIN chats'
  IN  SelectSeq(messages, LAMBDA m : m.chatId \in remaining)

\* the step appended row m by one of the two creates of the send handler
AppendedBySend(m) ==
  \E r \in Reqs :
    /\ m.chatId = req[r].chatId
    /\ \/ req[r].pc = "saveUser" /\ m.role = "user" /\ req'[r].userMessage = m
       \/ req[r].pc = "saveAssistant" /\ m.role = "assistant"
          /\ req'[r].assistantMessage = m

\* what the last list request answered is the beginning of what the list
\* request answers now, as long as the chat exists
ListedStaysListed ==
  (/\ resp.handler = "listMessages"
   /\ resp.response.status = 200
   /\ ChatExists(resp.id)) =>
    LET earlier == resp.response.data.messages
        now == ListMessagesResponse(resp.user, resp.id)
    IN  /\ now.status = 200
        /\ Len(now.data.messages) >= Len(earlier)
        /\ SubSeq(now.data.messages, 1, Len(earlier)) = earlier

\* in a step the stored rows whose chat remains stay as they are and in their
\* order, and at most one row is added, at the end and by a create of the send
\* handler
RowsOnlyAppended ==
  LET kept == KeptMessages
      n == Len(kept)
  IN  /\ Len(messages') >= n
      /\ SubSeq(messages', 1, n) = kept
      /\ Len(messages') <= n + 1
      /\ Len(messages') > n =>
           /\ chats' = chats
           /\ AppendedBySend(messages'[n + 1])

\* C18: no request changes an existing message: every step leaves the stored
\* rows of the remaining chats as they are and adds at most one row, by a create
\* of the send handler, and a message returned by a list request is returned
\* unchanged by every later list request while its chat exists.
C18_MessagesAppendOnly == [][RowsOnlyAppended]_vars /\ []ListedStaysListed

\* a chat that was listed, then grew by a full exchange, while a project
\* deletion was answered in between
C18_Witness ==
  /\ req[1].pc = "done"
  /\ req[1].assistantMessage # NULL
  /\ ids.request = 2
  /\ resp.handler = "listMessages"
  /\ resp.response.status = 200
  /\ Len(resp.response.data.messages) = 2
  /\ Len(ListMessagesResponse("A", 1).data.messages) = 4

\* every stored project has a non-empty name and a non-empty system prompt
NameAndPromptStored ==
  \A id \in DOMAIN projects :
    projects[id].name # << >> /\ projects[id].systemPrompt # << >>

\* a create step whose name or system prompt is missing or empty is answered
\* 400 and leaves the Project table alone
CreateRejectsEmpty ==
  resp'.handler = "createProject" =>
    \A body \in ProjectBodies :
      (/\ ~Truthy(body.name) \/ ~Truthy(body.systemPrompt)
       /\ CreateProject(resp'.user, body.name, body.description, body.systemPrompt)) =>
        /\ resp'.response.status = 400
        /\ projects' = projects

\* an update step on an own project keeps the stored name when the body's name
\* is missing or empty, and likewise the stored system prompt
UpdateKeepsStored ==
  (resp'.handler = "updateProject" /\ FindProject(resp'.id, resp'.user) # NULL) =>
    \A body \in ProjectBodies :
      UpdateProject(resp'.user, resp'.id, body.name, body.description,
                    body.systemPrompt) =>
        /\ resp'.response.status = 200
        /\ ~Truthy(body.name) => projects'[resp'.id].name = projects[resp'.id].name
        /\ ~Truthy(body.systemPrompt) =>
             projects'[resp'.id].systemPrompt = projects[resp'.id].systemPrompt

\* C19: after any sequence of project create and update requests every stored
\* project has a non-empty name and a non-empty system prompt; a create with a
\* missing or empty one is answered 400 and writes nothing, and an update with a
\* missing or empty one keeps the stored value.
C19_NameAndPromptKept ==
  []NameAndPromptStored /\ [][CreateRejectsEmpty /\ UpdateKeepsStored]_vars

\* the seeded project after an update that carried a new system prompt and no
\* usable name
C19_Witness ==
  /\ resp.handler = "updateProject"
  /\ resp.response.status = 200
  /\ resp.id = 1
  /\ projects[1].name = <<"bot">>
  /\ projects[1].systemPrompt = <<"q">>

\* the rows written since the start of SpecConcurrent
SeededRows == Len(PriorMessages(WindowSize - 1))

WrittenRows == SelectSeq(messages, LAMBDA m : m.id > SeededRows)

\* request r has stored a user-role and then an assistant-role row of its own
\* in its chat, and was handed at most ten prior messages
OwnPairStored(r) ==
  LET u == req[r].userMessage
      a == req[r].assistantMessage
  IN  /\ u # NULL /\ a # NULL
      /\ u.role = "user" /\ a.role = "assistant"
      /\ u.chatId = req[r].chatId /\ a.chatId = req[r].chatId
      /\ \E i, j \in 1 .. Len(messages) :
           i < j /\ messages[i] = u /\ messages[j] = a
      /\ u.timestamp < a.timestamp
      /\ Len(req[r].chat.messages) <= WindowSize
      /\ Len(req[r].conversation) <= WindowSize + 2

\* both slots hold a finished valid send on the same chat, the only two requests
BothSendsDone ==
  /\ ValidSendDone(1) /\ ValidSendDone(2)
  /\ req[1].chatId = req[2].chatId
  /\ ids.request = 2

\* the two requests wrote four rows between them and nothing else was written
FourRowsWritten ==
  /\ Len(WrittenRows) = 4
  /\ {req[1].userMessage, req[1].assistantMessage,
      req[2].userMessage, req[2].assistantMessage} = Range(WrittenRows)

\* C20: when two send-message requests for the same chat run with their steps
\* interleaved in any way, each still stores one user-role and one
\* assistant-role message of its own (four rows in total), its user message
\* before its assistant message, and each was handed at most ten prior messages.
C20_ConcurrentSendsKeepPairs ==
  BothSendsDone => (OwnPairStored(1) /\ OwnPairStored(2) /\ FourRowsWritten)

\* C20 for two requests whose backend reply carried a string content, or whose
\* backend calls all threw
C20_WhenRepliesHaveContent ==
  (BothSendsDone /\ \A r \in Reqs : req[r].aiResult.content.t = "string") =>
    (OwnPairStored(1) /\ OwnPairStored(2) /\ FourRowsWritten)

\* two sends in flight together: the second looked its chat up after the first
\* had written its user message and before the first wrote its reply, and both
\* finished with their pairs stored
C20_Interleaved ==
  /\ BothSendsDone
  /\ OwnPairStored(1) /\ OwnPairStored(2)
  /\ req[1].userMessage.id < req[2].userMessage.id
  /\ req[2].userMessage.id < req[1].assistantMessage.id
  /\ Len(req[2].chat.messages) = WindowSize

\* the backends configured in process.env
Configured == {s \in {OPENAI, OPENROUTER} : env[s]}

\* request r, once entered, has attempted each configured backend at most once
AttemptsBounded(r) ==
  LET a == req[r].attempts
  IN  /\ Len(a) <= Cardinality(Configured)
      /\ Len(a) <= 2
      /\ \A i \in 1 .. Len(a) : a[i].service \in Configured
      /\ \A i, j \in 1 .. Len(a) : a[i].service = a[j].service => i = j

\* C21: every send-message request that has been entered is answered in the
\* end, after at most one attempt per configured backend (at most two), when
\* every awaited database and backend call returns, fails or times out.
C21_SendTerminates ==
  /\ [](\A r \in {1} : AttemptsBounded(r))
  /\ \A r \in {1} :
       (req[r].pc \notin {"idle", "done"}) ~>
         (req[r].pc = "done" /\ req[r].response # NULL)

\* a request answered after both configured backends were attempted and failed
C21_Witness ==
  /\ req[1].pc = "done"
  /\ req[1].response # NULL
  /\ Cardinality(Configured) = 2
  /\ Len(req[1].attempts) = 2

\* the File rows named by the reference ids of request r, by owner
NamedFiles(r) ==
  {f \in {files[id] : id \in DOMAIN files} :
     f.openaiFileId # NoRemoteId /\ f.openaiFileId \in Range(req[r].fileIds)}

OwnNamedFiles(r) ==
  {f \in NamedFiles(r) :
     f.projectId \in DOMAIN projects /\ projects[f.projectId].userId = req[r].user}

\* the "- name (type)" entry of File row f occurs in the text
Lists(text, f) ==
  LET entry == <<"-">> \o f.originalName \o <<f.mimeType>>
  IN  \E i \in 1 .. Len(text) - Len(entry) + 1 :
        SubSeq(text, i, i + Len(entry) - 1) = entry

\* C22: the file context of a send lists only File rows of the requesting
\* user's projects: a reference id of another user's file adds nothing, the
\* context is either empty (no own file named, or the lookup failed) or lists
\* exactly the own files named, and the send goes on to the backends with the
\* context appended to the system prompt.
C22_FileContextScoped ==
  \A r \in Reqs :
    (req[r].chat # NULL /\ req[r].conversation # << >>) =>
      LET text == req[r].fileContext
      IN  /\ \A f \in NamedFiles(r) \ OwnNamedFiles(r) : ~Lists(text, f)
          /\ text # << >> =>
               /\ \A f \in OwnNamedFiles(r) : Lists(text, f)
               /\ text[2] = ToString(Cardinality(OwnNamedFiles(r)))
               /\ Cardinality({i \in 1 .. Len(text) : text[i] = "-"})
                    = Cardinality(OwnNamedFiles(r))
          /\ req[r].conversation[1].content
               = req[r].chat.project.systemPrompt \o text
          /\ (req[r].pc = "done" /\ req[r].aiResult.content.t = "string") =>
               req[r].response.status = 200

\* a send by A that named A's and B's file: A's file is listed, the request was
\* answered
C22_Witness ==
  /\ req[1].pc = "done"
  /\ req[1].user = "A"
  /\ Cardinality(NamedFiles(1)) = 2
  /\ Cardinality(OwnNamedFiles(1)) = 1
  /\ req[1].fileContext # << >>
  /\ req[1].response.status = 200

\* a send whose file lookup failed: own files were named, the context is empty
\* and the request was answered with a success
C22_LookupFailed ==
  /\ req[1].pc = "done"
  /\ OwnNamedFiles(1) # {}
  /\ req[1].fileContext = << >>
  /\ req[1].response.status = 200
\* ---------------------------------------------------------------- C23
\* the handler invocations that serve a pending call of the chat screen and
\* have read the request (the user message is written)
ServedSends ==
  {r \in Reqs : /\ req[r].userMessage # NULL
                /\ \E i \in 1 .. Len(client.calls) :
                     client.calls[i].slot = r /\ client.calls[i].entered}

\* C23: when the chat screen sends a message while files with a remote
\* reference id are selected, the request the server handles carries exactly
\* those ids as its fileIds.
C23_SelectedIdsReachServer ==
  client.pc = "ready" =>
    \A r \in ServedSends : req[r].fileIds = SelectedIds(client.selectedFiles)

\* C23, as far as it holds: the content of the request is the trimmed text of
\* the input field, for the chat of the screen and its user
C23_ContentReachesServer ==
  client.pc = "ready" =>
    \A r \in ServedSends :
      /\ req[r].user = "A"
      /\ req[r].chatId = client.currentChat
      /\ \E i \in 1 .. Len(client.calls) :
           /\ client.calls[i].slot = r
           /\ req[r].content = Str(client.calls[i].messageContent)

\* a send with a selected file that has a reference id was handled
C23_SentWithFiles ==
  /\ client.pc = "ready"
  /\ SelectedIds(client.selectedFiles) # << >>
  /\ ServedSends # {}

\* ---------------------------------------------------------------- C28
\* the step is the catch branch of pending call i: the screen reports
\* 'Failed to send message' and puts the text back into the input field
SendFailed(i) ==
  /\ SendSettled(i) \/ SendTimedOut(i)
  /\ client'.error = "Failed to send message"
  /\ client'.inputMessage = client.calls[i].messageContent

\* the handler invocation of pending call i has written a message row
Persisted(i) ==
  /\ client.calls[i].entered
  /\ req[client.calls[i].slot].userMessage # NULL

\* C28: whenever the chat screen reports 'Failed to send message' and restores
\* the text, also when the client's 30 s timeout fires while the server is
\* still working, the server has stored no message of that send.
C28_FailedSendPersistsNothing ==
  [][\A i \in 1 .. Len(client.calls) : SendFailed(i) => ~Persisted(i)]_vars

\* ---------------------------------------------------------------- C29
\* at most one send of the screen is awaited, and exactly while it is loading
OneSendInFlight ==
  /\ Len(client.calls) <= 1
  /\ client.isLoading <=> client.calls # << >>

\* a step that issues a request was taken with a chat, a text and no send
\* loading
IssuedOnlyWhenAllowed ==
  Len(client'.calls) > Len(client.calls) =>
    /\ ~client.isLoading
    /\ Trim(client.inputMessage) # << >>
    /\ client.currentChat # 0
    /\ client'.calls[Len(client'.calls)].chatId = client.currentChat

\* a successful send appends its own user message, then its assistant message
SuccessAppendsPair(i) ==
  (SendSettled(i) /\ req[client.calls[i].slot].response.status = 200) =>
    LET q == req[client.calls[i].slot]
    IN  /\ client'.messages = client.messages \o <<q.userMessage, q.assistantMessage>>
        /\ q.userMessage.role = "user"
        /\ q.userMessage.content = client.calls[i].messageContent
        /\ q.assistantMessage.role = "assistant"
        /\ q.userMessage.chatId = client.currentChat
        /\ q.assistantMessage.chatId = client.currentChat

\* C29 as stated: never two sends in flight; a submit while loading, without
\* text after trimming or without a chat issues no request; a successful send
\* appends its user and assistant message; a failed send appends nothing and
\* restores the typed text.
C29_SingleSendTypedTextRestored ==
  /\ []OneSendInFlight
  /\ [][/\ IssuedOnlyWhenAllowed
        /\ \A i \in 1 .. Len(client.calls) :
             /\ SuccessAppendsPair(i)
             /\ SendFailed(i) =>
                  /\ client'.messages = client.messages
                  /\ client'.inputMessage = client.calls[i].typed]_vars

\* C29, amended: as above, and a failed send restores the trimmed text
C29_SingleSendTrimmedTextRestored ==
  /\ []OneSendInFlight
  /\ [][/\ IssuedOnlyWhenAllowed
        /\ \A i \in 1 .. Len(client.calls) :
             /\ SuccessAppendsPair(i)
             /\ SendFailed(i) =>
                  /\ client'.messages = client.messages
                  /\ client'.inputMessage = Trim(client.calls[i].typed)]_vars

\* a send failed and its text is back in the field while the list shows the
\* pair of an earlier successful send
C29_Witness ==
  /\ client.pc = "ready"
  /\ client.error = "Failed to send message"
  /\ client.inputMessage = <<"a">>
  /\ ~client.isLoading
  /\ Len(client.messages) = 3

\* ---------------------------------------------------------------- C24
\* slot 1 enters the upload handler in this step
UploadEntered == req'[1] # req[1] /\ req[1].pc \in {"idle", "done"}

\* the requests for a project that is not the user's or does not exist, with
\* the batches of `batches`
Outside(batches) ==
  {in \in [user : Users, projectId : ProjectIds, batch : batches] :
     FindProject(in.projectId, in.user) = NULL}

\* the batches with at least one file that multer accepts whole
Accepted == {batch \in Batches \ {<< >>} : \A i \in 1 .. Len(batch) : FileFilter(batch[i])}

\* the request is answered at once, without a File row, a remote staging call
\* or a local file left behind
AnsweredWithoutTrace ==
  /\ req'[1].pc = "done"
  /\ req'[1].handler = "upload"
  /\ req'[1].local = {}
  /\ files' = files
  /\ ids' = ids

CreatedRows(r) ==
  {req[r].staging[k].id : k \in 1 .. Len(req[r].staging)} \cap DOMAIN files

\* C25: every File row an upload has created has left status uploading when
\* the response is sent, also when a status-update write failed.
C25_NoRowLeftUploading ==
  req[1].pc = "respond" =>
    \A id \in CreatedRows(1) : files[id].status \in {"processed", "error"}

\* C25, as far as it holds: a row is left in status uploading only when the
\* write of status error threw
C25_UploadingOnlyAfterFailedWrite ==
  req[1].pc = "respond" =>
    \A k \in 1 .. Len(req[1].staging) :
      LET staged == req[1].staging[k]
      IN  staged.id \in DOMAIN files =>
            /\ staged.result = "processed" => files[staged.id].status = "processed"
            /\ staged.result = "error" => files[staged.id].status = "error"
            /\ staged.result = "thrown" => files[staged.id].status = "uploading"

\* the loop is over with a row left in status uploading next to a processed one
C25_Reached ==
  /\ req[1].pc = "respond"
  /\ \E id \in CreatedRows(1) : files[id].status = "uploading"
  /\ \E id \in CreatedRows(1) : files[id].status = "processed"

\* ---------------------------------------------------------------- C26
\* how often `name` is the name of an entry of the sequence `names`
Occurrences(names, name) == Cardinality({k \in 1 .. Len(names) : names[k] = name})

\* the files of the batch the loop of upload r is through with
FilesDone(r) == req[r].i - 1

\* every file the loop is through with is listed once, in files or in errors
ListedOnce(r) ==
  LET q == req[r]
      done == [k \in 1 .. FilesDone(r) |-> q.batch[k].originalname]
      inFiles == [k \in 1 .. Len(q.uploadedFiles) |-> q.uploadedFiles[k].originalName]
      inErrors == [k \in 1 .. Len(q.errors) |-> q.errors[k].filename]
  IN  /\ Len(q.uploadedFiles) + Len(q.errors) = FilesDone(r)
      /\ \A k \in 1 .. FilesDone(r) :
           Occurrences(done, done[k])
             = Occurrences(inFiles, done[k]) + Occurrences(inErrors, done[k])
      /\ \A k, l \in 1 .. Len(q.uploadedFiles) :
           q.uploadedFiles[k].id = q.uploadedFiles[l].id => k = l

\* an entry of files with status processed stands for a row that was updated to
\* processed with the reference id the remote call returned
ProcessedWasWritten(r) ==
  \A k \in 1 .. Len(req[r].uploadedFiles) :
    LET entry == req[r].uploadedFiles[k]
    IN  entry.status = "processed" =>
          /\ entry.openaiFileId = RemoteId(entry.id)
          /\ \E l \in 1 .. Len(req[r].staging) :
               /\ req[r].staging[l].id = entry.id
               /\ req[r].staging[l].ok
               /\ req[r].staging[l].result = "processed"
          /\ entry.id \in DOMAIN files =>
               /\ files[entry.id].status = "processed"
               /\ files[entry.id].openaiFileId = entry.openaiFileId

\* C26: in the response of an upload that reaches the loop every file of the
\* batch appears exactly once, in files or in errors, and a file is in files
\* with status processed only if its row was updated to processed with the
\* returned reference id.
C26_EveryFileListedOnce ==
  /\ [](req[1].pc \in {"create", "stage", "respond"} =>
          ListedOnce(1) /\ ProcessedWasWritten(1))
  /\ [][req[1].pc = "respond" /\ req'[1].pc = "done" =>
          /\ req'[1].response.status = 200
          /\ req'[1].response.data.files = req[1].uploadedFiles
          /\ req'[1].response.data.errors = req[1].errors]_vars

\* the loop is over for a batch of two: one file is in files as processed, the
\* other in errors
C26_Witness ==
  /\ req[1].pc = "respond"
  /\ Len(req[1].batch) = 2
  /\ Len(req[1].uploadedFiles) = 1
  /\ req[1].uploadedFiles[1].status = "processed"
  /\ Len(req[1].errors) = 1

\* ---------------------------------------------------------------- C27
\* C27: when the settings tab reports 'Project updated successfully!' the
\* project stored on the server has the submitted name, description and system
\* prompt.
C27_ReportedUpdateIsStored ==
  (client.pc = "settings" /\ client.alert = "Project updated successfully!") =>
    /\ projects[1].name = client.updates.name.s
    /\ projects[1].systemPrompt = client.updates.systemPrompt.s
    /\ client.updates.description # Undefined =>
         projects[1].description = client.updates.description

\* C27, as far as it holds: Save Changes is only taken with a name and a
\* system prompt that are not blank, and at most one save is awaited
C27_SaveNeedsNameAndPrompt ==
  (client.pc = "settings" /\ client.updates # NULL) =>
    /\ Trim(client.updates.name.s) # << >>
    /\ Trim(client.updates.systemPrompt.s) # << >>
    /\ client.awaited <=> client.isUpdating

\* ---------------------------------------------------------------- C30
\* the step handles the answer to a login or register call that failed
LoginFailed ==
  /\ client.call.via = "api"
  /\ client.call.op \in {"login", "register"}
  /\ client.call.pc = "answered"
  /\ client.call.status # 200
  /\ client'.call # client.call

\* the step is a logout
LoggedOut ==
  /\ client.pc = "ready"
  /\ client.auth.isAuthenticated
  /\ ~client'.auth.isAuthenticated
  /\ client'.pc = "ready"

\* C30: in every state of the auth reducer isAuthenticated is true exactly
\* when user and token are both set; after logout the state is unauthenticated
\* and local storage holds neither token nor user data; a failed login or
\* register leaves user, token and local storage as they were.
C30_AuthStateConsistent ==
  /\ [](client.auth.isAuthenticated <=>
          (client.auth.user # NoItem /\ client.auth.token # NoItem))
  /\ [][/\ LoggedOut =>
             /\ client'.auth.user = NoItem
             /\ client'.auth.token = NoItem
             /\ client'.storage = EmptyStorage
        /\ LoginFailed =>
             /\ client'.auth.user = client.auth.user
             /\ client'.auth.token = client.auth.token
             /\ ~client'.auth.isAuthenticated
             /\ client'.storage = client.storage]_vars

\* signed in through SET_USER: user, token and both storage keys are set
C30_Witness ==
  /\ client.pc = "ready"
  /\ client.auth.isAuthenticated
  /\ client.auth.user = "B"
  /\ client.auth.token = TokenOf["B"]
  /\ client.storage = [auth_token |-> TokenOf["B"], user_data |-> "B"]

\* the 401 answer to a login is about to be handled; the storage is empty
C30_FailedLoginAnswered ==
  /\ client.call.via = "api"
  /\ client.call.op = "login"
  /\ client.call.pc = "answered"
  /\ client.call.status = 401
  /\ client.storage = EmptyStorage

====
